---- MODULE Spec2Model ----
(***************************************************************************)
(* A model of dpm-finder: the resilient request executor, the work         *)
(* partitioner, the collection pass and the exporter runtime of            *)
(* src/dpm-finder.py, with the older one-shot variant of src/main.py.      *)
(***************************************************************************)
EXTENDS Integers, Sequences, FiniteSets, TLC

VARIABLES
    \* ---- make_request_with_retry and its two callers ----
    variant,        \* the file whose executor runs: "dpm-finder" or "main"
    caller,         \* "get_metric_json" or "process_metric_chunk"
    max_retries,    \* parameter max_retries
    initial_delay,  \* parameter retry_delay as passed in
    retry_delay,    \* local retry_delay, doubled after every sleep
    attempt,        \* loop variable of "for attempt in range(max_retries)"
    rpc,            \* "request", "sleep", "returned", "raised", "caller_done"
    caught,         \* the exception caught by the attempt that leads to a sleep
    response,       \* value returned: "unset", "None", "Response" or an exception
    errors,         \* the exceptions of the attempts made so far, in order
    sleeps,         \* the durations slept so far, in order
    callerResult,   \* what the caller made of the returned value
    quiet,          \* parameter quiet
    logged          \* the records the executor has logged or printed

retryVars == <<variant, caller, max_retries, initial_delay, retry_delay,
               attempt, rpc, caught, response, errors, sleeps, callerResult,
               quiet, logged>>

VARIABLES
    \* ---- the work partitioner inside get_metric_rates ----
    thread_count,     \* parameter thread_count, clamped on entry
    filtered_metrics, \* the filtered catalogue, a sequence of names
    chunk_size,       \* local chunk_size
    metric_chunks,    \* local metric_chunks, a sequence of sequences
    cpc               \* "idle", "entry", "partition", "chunked"

chunkVars == <<thread_count, filtered_metrics, chunk_size, metric_chunks, cpc>>

VARIABLES
    \* ---- the process: main, run_exporter, run_metrics_updater ----
    mode,             \* "exporter" (args.exporter) or "oneshot"
    min_dpm,          \* args.min_dpm, in tenths
    mainPc,           \* position of the main thread
    exitCode,         \* exit status of the process, -1 while it runs
    shutdown_event,   \* the global threading.Event
    http_server,      \* start_http_server has returned: the endpoint is live
    updPc,            \* position of the updater thread
    cycles            \* cycles the updater has begun

procVars == <<mode, min_dpm, mainPc, exitCode, shutdown_event, http_server,
              updPc, cycles>>

VARIABLES
    \* ---- the configuration main() reads ----
    port,                 \* args.port
    timeout,              \* args.timeout
    prometheus_endpoint,  \* os.getenv("PROMETHEUS_ENDPOINT"): "None" or a URL
    username,             \* os.getenv("PROMETHEUS_USERNAME"): "None" or a name
    api_key               \* os.getenv("PROMETHEUS_API_KEY"): "None" or a key

configVars == <<port, timeout, prometheus_endpoint, username, api_key>>

VARIABLES
    \* ---- one collection pass and the retry_with_backoff around it ----
    owner,               \* the thread running the pass: "none", "main", "updater"
    ppc,                 \* position of that thread inside the pass
    rb_attempt,          \* retry_with_backoff: attempt
    rb_budget,           \* retry_with_backoff: max_retries
    rb_delay,            \* retry_with_backoff: retry_delay
    passResult,          \* what the pass returned: "unset", "True", "False", "None"
    main_names,          \* main(): metric_names
    main_aggs,           \* main(): metric_aggregations
    metric_names,        \* the pass's metric_names: None or the names document
    metric_aggregations  \* the pass's metric_aggregations: None or the rules

passVars == <<owner, ppc, rb_attempt, rb_budget, rb_delay, passResult,
              main_names, main_aggs, metric_names, metric_aggregations>>

VARIABLES
    \* ---- the pool of get_metric_rates: one entry per chunk ----
    chunkStatus,      \* "queued", "running" or "done" (results put in the queue)
    chunkPos,         \* names of the chunk processed so far
    chunk_results,    \* process_metric_chunk: chunk_results, a dict
    chunk_times,      \* process_metric_chunk: chunk_times, one entry per name timed
    results_queue     \* the Queue of (chunk_results, chunk_times)

poolVars == <<chunkStatus, chunkPos, chunk_results, chunk_times, results_queue>>

VARIABLES
    \* ---- the aggregation and the publication ----
    dpm_data,         \* get_metric_rates: dpm_data, a dict
    processing_times, \* get_metric_rates: processing_times
    filtered_dpm,     \* get_metric_rates: filtered_dpm, a dict
    total_metrics,    \* performance_data['total_metrics']
    upos,             \* position inside update_prometheus_metrics
    dpm_metric,       \* the Gauge metric_dpm_rate: label value -> rate
    metrics_processed,\* the Counter dpm_finder_metrics_processed_total
    last_update,      \* the Gauge dpm_finder_last_update_timestamp
    report            \* the one-shot report: None before it is written

aggVars == <<dpm_data, processing_times, filtered_dpm, total_metrics, upos>>
gaugeVars == <<dpm_metric, metrics_processed, last_update>>

VARIABLES
    \* ---- history kept for the properties; the program does not read it ----
    published,          \* the snapshot as the last completed update left it
    scrape,             \* the last read of the endpoint: "none", "whole" or "torn"
    lastGood,           \* the rates published by the last pass that did not fail
    queried,            \* names a rate query was issued for, this pass
    failed,             \* names whose query ended in a terminal failure, this pass
    cycleStart,         \* the snapshot when the current updater cycle began
    cycleCatalogOk,     \* a catalogue fetch of the current cycle succeeded
    cycleQueries,       \* rate queries issued in the current cycle
    requestAfterSignal  \* the updater or its workers sent a request after the signal

histVars == <<published, scrape, lastGood, queried, failed, cycleStart, cycleCatalogOk,
              cycleQueries, requestAfterSignal>>

VARIABLES
    \* ---- the end of get_metric_rates: its statistics and its output ----
    exporter_mode,      \* the parameter exporter_mode
    output_format,      \* the parameter output_format: "csv", "json", "prom", "text"
    total_time,         \* time.time() - start_time, in seconds
    avg_metric_time,    \* the average of processing_times, in tenths of a second
    processing_rate,    \* the throughput written or set, in tenths of a metric a second
    statsPc             \* "idle", "drained", "log", "output", "returned", "raised"

statsVars == <<exporter_mode, output_format, total_time, avg_metric_time,
               processing_rate, statsPc>>

exporterVars == <<procVars, configVars, passVars, poolVars, aggVars, gaugeVars, report,
                  histVars, statsVars>>

vars == <<retryVars, chunkVars, exporterVars>>

-----------------------------------------------------------------------------
(* Bounds of the model. *)
MaxRetries == 4
MaxDelay == 2
MaxCatalog == 8
MaxThreads == 6
MaxCycles == 1

-----------------------------------------------------------------------------
(* Outcomes of one requests.get + raise_for_status. *)

\* requests.exceptions.RequestException and its subclasses
RequestExceptions == {"HTTPError", "Timeout", "ConnectionError"}

\* every Exception an attempt can end in: the builtin ConnectionResetError,
\* the requests exceptions, and any other Exception (ValueError)
Exceptions == {"ConnectionResetError", "ValueError"} \cup RequestExceptions

Variants == {"dpm-finder", "main"}
Callers == {"get_metric_json", "process_metric_chunk"}

IsException(v) == v \in Exceptions

\* an off-by-one of the test below: the last attempt sleeps too
AttemptsRemain_OffByOne(a, m) == a < m

\* "if attempt < max_retries - 1": a sleep follows every attempt but the last
AttemptsRemain(a, m) == a < m - 1

\* a retry_with_backoff that gives up at the first exception
PassAttemptsRemain_Never(a, m) == FALSE

\* "if attempt < max_retries - 1" of retry_with_backoff
PassAttemptsRemain(a, m) == a < m - 1

\* "retry_delay *= 2"
Backoff(d) == d * 2

\* a sleep that is taken only when the retry is logged
Slept_OnlyWhenLogged(q) == ~q

\* a retry without a sleep
Slept_Never(q) == FALSE

\* "time.sleep(retry_delay)" stands behind the "if not quiet" block, not in it
Slept(q) == TRUE

\* a failed attempt leaves a record: under "if not quiet", dpm-finder.py logs
\* a warning before a sleep and an error after the last attempt; main.py
\* prints before a sleep only
Logs(v, q, clause, remain) ==
    /\ ~q
    /\ clause = "retry"
    /\ v = "main" => remain

\* "except Exception" with the backoff in both variants
ExceptClause_RetryAll(v, e) == "retry"

\* dpm-finder's clause narrowed to "except requests.exceptions.RequestException"
ExceptClause_RequestsOnly(v, e) ==
    IF e = "ConnectionResetError" THEN "retry"
    ELSE IF e \in RequestExceptions THEN (IF v = "dpm-finder" THEN "retry" ELSE "return")
    ELSE "propagate"

\* the except clause an exception lands in: "retry" (the clause with the
\* backoff), "return" (returned at once) or "propagate" (no clause catches it)
ExceptClause(v, e) ==
    IF v = "dpm-finder"
    THEN "retry"                                   \* except Exception
    ELSE IF e = "ConnectionResetError" THEN "retry"
         ELSE IF e \in RequestExceptions THEN "return"
         ELSE "propagate"

\* the request executor at rest, whatever quiet is
RetryAtRest ==
    /\ variant = "dpm-finder"
    /\ caller = "get_metric_json"
    /\ max_retries = 0
    /\ initial_delay = 0
    /\ retry_delay = 0
    /\ attempt = 0
    /\ rpc = "idle"
    /\ caught = "none"
    /\ response = "unset"
    /\ errors = <<>>
    /\ sleeps = <<>>
    /\ callerResult = "unset"
    /\ logged = 0

RetryIdle ==
    /\ RetryAtRest
    /\ quiet = FALSE

ChunkIdle ==
    /\ thread_count = 0
    /\ filtered_metrics = <<>>
    /\ chunk_size = 0
    /\ metric_chunks = <<>>
    /\ cpc = "idle"

\* the gauges as registered at import: no child, every value 0
EmptyFunction == [k \in {} |-> 0]

Snapshot(rates, processed, updated) ==
    [rates |-> rates, processed |-> processed, updated |-> updated]

ZeroSnapshot == Snapshot(EmptyFunction, 0, 0)

\* the statistics of a pass are not followed: the clock has advanced between
\* its two readings
StatsIdle ==
    /\ exporter_mode = FALSE
    /\ output_format = "csv"
    /\ total_time = 0
    /\ avg_metric_time = 0
    /\ processing_rate = 0
    /\ statsPc = "idle"

\* the process at rest, whatever the statistics of a pass are
ExporterAtRest ==
    /\ mode = "oneshot"
    /\ port = 9966
    /\ timeout = 60
    /\ prometheus_endpoint = "https://prometheus"
    /\ username = "user"
    /\ api_key = "key"
    /\ min_dpm = 10
    /\ mainPc = "idle"
    /\ exitCode = -1
    /\ shutdown_event = FALSE
    /\ http_server = FALSE
    /\ updPc = "notstarted"
    /\ cycles = 0
    /\ owner = "none"
    /\ ppc = "idle"
    /\ rb_attempt = 0
    /\ rb_budget = 0
    /\ rb_delay = 0
    /\ passResult = "unset"
    /\ main_names = [unset |-> TRUE]
    /\ main_aggs = [unset |-> TRUE]
    /\ metric_names = [unset |-> TRUE]
    /\ metric_aggregations = [unset |-> TRUE]
    /\ chunkStatus = <<>>
    /\ chunkPos = <<>>
    /\ chunk_results = <<>>
    /\ chunk_times = <<>>
    /\ results_queue = <<>>
    /\ dpm_data = <<>>
    /\ filtered_dpm = <<>>
    /\ total_metrics = 0
    /\ upos = 0
    /\ dpm_metric = EmptyFunction
    /\ metrics_processed = 0
    /\ last_update = 0
    /\ report = [none |-> TRUE]
    /\ published = ZeroSnapshot
    /\ scrape = "none"
    /\ lastGood = EmptyFunction
    /\ queried = {}
    /\ failed = {}
    /\ cycleStart = ZeroSnapshot
    /\ cycleCatalogOk = FALSE
    /\ cycleQueries = 0
    /\ requestAfterSignal = FALSE

ExporterIdle ==
    /\ ExporterAtRest
    /\ processing_times = <<>>
    /\ StatsIdle

RetryInit ==
    /\ ChunkIdle
    /\ ExporterIdle
    /\ variant \in Variants
    /\ caller \in Callers
    /\ max_retries \in 0..MaxRetries
    /\ initial_delay \in 1..MaxDelay
    /\ retry_delay = initial_delay
    /\ attempt = 0
    /\ rpc = "request"
    /\ caught = "none"
    /\ response = "unset"
    /\ errors = <<>>
    /\ sleeps = <<>>
    /\ callerResult = "unset"
    /\ quiet \in BOOLEAN
    /\ logged = 0

\* the attempt succeeds: "return response"
RequestOk ==
    /\ rpc = "request"
    /\ attempt < max_retries
    /\ response' = "Response"
    /\ rpc' = "returned"
    /\ UNCHANGED <<chunkVars, exporterVars>>
    /\ UNCHANGED <<quiet, variant, caller, max_retries, initial_delay, retry_delay,
                   attempt, caught, errors, sleeps, callerResult, logged>>

\* the attempt raises e
RequestFails(e) ==
    /\ rpc = "request"
    /\ attempt < max_retries
    /\ errors' = Append(errors, e)
    /\ LET clause == ExceptClause(variant, e) IN
       \/ /\ clause = "retry"
          /\ AttemptsRemain(attempt, max_retries)
          /\ rpc' = "sleep"
          /\ caught' = e
          /\ UNCHANGED response
       \/ /\ \/ clause = "return"
             \/ clause = "retry" /\ ~AttemptsRemain(attempt, max_retries)
          /\ rpc' = "returned"
          /\ response' = e
          /\ UNCHANGED caught
       \/ /\ clause = "propagate"
          /\ rpc' = "raised"
          /\ caught' = e
          /\ UNCHANGED response
    /\ logged' = IF Logs(variant, quiet, ExceptClause(variant, e),
                         AttemptsRemain(attempt, max_retries))
                 THEN logged + 1 ELSE logged
    /\ UNCHANGED <<chunkVars, exporterVars>>
    /\ UNCHANGED <<quiet, variant, caller, max_retries, initial_delay, retry_delay,
                   attempt, sleeps, callerResult>>

\* "time.sleep(retry_delay); retry_delay *= 2", then the next iteration
Sleep ==
    /\ rpc = "sleep"
    /\ sleeps' = IF Slept(quiet) THEN Append(sleeps, retry_delay) ELSE sleeps
    /\ retry_delay' = Backoff(retry_delay)
    /\ attempt' = attempt + 1
    /\ rpc' = "request"
    /\ UNCHANGED <<chunkVars, exporterVars>>
    /\ UNCHANGED <<quiet, variant, caller, max_retries, initial_delay, caught,
                   response, errors, callerResult, logged>>

\* range(max_retries) is empty: the function falls off its end
LoopExhausted ==
    /\ rpc = "request"
    /\ attempt >= max_retries
    /\ response' = "None"
    /\ rpc' = "returned"
    /\ UNCHANGED <<chunkVars, exporterVars>>
    /\ UNCHANGED <<quiet, variant, caller, max_retries, initial_delay, retry_delay,
                   attempt, caught, errors, sleeps, callerResult, logged>>

\* get_metric_json on the value returned; parsed: response.json() succeeds
GetMetricJson(resp, parsed) ==
    IF IsException(resp) THEN "None"
    ELSE IF resp = "Response" /\ parsed THEN "json"
    ELSE "None"                    \* except Exception around response.json()

\* one iteration of process_metric_chunk on the value returned; usable: the
\* body parses and holds a result with a value array of more than one element
ProcessMetric(resp, usable) ==
    IF IsException(resp) THEN "timing"
    ELSE IF resp = "Response" /\ usable THEN "result+timing"
    ELSE "timing"                  \* except Exception around the parsing

CallerReturns ==
    /\ rpc = "returned"
    /\ \E good \in BOOLEAN :
         callerResult' = IF caller = "get_metric_json"
                         THEN GetMetricJson(response, good)
                         ELSE ProcessMetric(response, good)
    /\ rpc' = "caller_done"
    /\ UNCHANGED <<chunkVars, exporterVars>>
    /\ UNCHANGED <<quiet, variant, caller, max_retries, initial_delay, retry_delay,
                   attempt, caught, response, errors, sleeps, logged>>

\* neither caller wraps the call in a try: the exception goes on up
CallerPropagates ==
    /\ rpc = "raised"
    /\ callerResult' = "raised"
    /\ rpc' = "caller_done"
    /\ UNCHANGED <<chunkVars, exporterVars>>
    /\ UNCHANGED <<quiet, variant, caller, max_retries, initial_delay, retry_delay,
                   attempt, caught, response, errors, sleeps, logged>>

RetryNext ==
    \/ RequestOk
    \/ \E e \in Exceptions : RequestFails(e)
    \/ Sleep
    \/ LoopExhausted
    \/ CallerReturns
    \/ CallerPropagates

SpecRetry == RetryInit /\ [][RetryNext]_vars

(* ---- retry_with_backoff, lines 82-106, on its own ---- *)

\* the values an operation returns: what get_metric_rates returned
OperationValues == {"True", "False"}

\* retry_with_backoff is entered, by run_exporter or run_metrics_updater
BackoffInit ==
    /\ ChunkIdle
    /\ ExporterIdle
    /\ variant = "dpm-finder"
    /\ caller = "run_exporter"
    /\ max_retries \in 0..MaxRetries
    /\ initial_delay \in 1..MaxDelay
    /\ retry_delay = initial_delay
    /\ attempt = 0
    /\ rpc = "operation"
    /\ caught = "none"
    /\ response = "unset"
    /\ errors = <<>>
    /\ sleeps = <<>>
    /\ callerResult = "unset"
    /\ quiet \in BOOLEAN
    /\ logged = 0

\* "return operation()"
OperationReturns(v) ==
    /\ rpc = "operation"
    /\ attempt < max_retries
    /\ response' = v
    /\ rpc' = "backoff_returned"
    /\ UNCHANGED <<chunkVars, exporterVars>>
    /\ UNCHANGED <<quiet, variant, caller, max_retries, initial_delay, retry_delay,
                   attempt, caught, errors, sleeps, callerResult, logged>>

\* operation() raises e: "except Exception", which logs unless quiet, and
\* sleeps, or returns None after the last attempt
OperationFails(e) ==
    /\ rpc = "operation"
    /\ attempt < max_retries
    /\ errors' = Append(errors, e)
    /\ logged' = IF quiet THEN logged ELSE logged + 1
    /\ \/ /\ PassAttemptsRemain(attempt, max_retries)
          /\ rpc' = "backoff_sleep"
          /\ caught' = e
          /\ UNCHANGED response
       \/ /\ ~PassAttemptsRemain(attempt, max_retries)
          /\ rpc' = "backoff_returned"
          /\ response' = "None"
          /\ UNCHANGED caught
    /\ UNCHANGED <<chunkVars, exporterVars>>
    /\ UNCHANGED <<quiet, variant, caller, max_retries, initial_delay, retry_delay,
                   attempt, sleeps, callerResult>>

\* "time.sleep(retry_delay); retry_delay *= 2", then the next iteration
BackoffSleep ==
    /\ rpc = "backoff_sleep"
    /\ sleeps' = IF Slept(quiet) THEN Append(sleeps, retry_delay) ELSE sleeps
    /\ retry_delay' = Backoff(retry_delay)
    /\ attempt' = attempt + 1
    /\ rpc' = "operation"
    /\ UNCHANGED <<chunkVars, exporterVars>>
    /\ UNCHANGED <<quiet, variant, caller, max_retries, initial_delay, caught,
                   response, errors, callerResult, logged>>

\* range(max_retries) is empty: the function falls off its end
BackoffExhausted ==
    /\ rpc = "operation"
    /\ attempt >= max_retries
    /\ response' = "None"
    /\ rpc' = "backoff_returned"
    /\ UNCHANGED <<chunkVars, exporterVars>>
    /\ UNCHANGED <<quiet, variant, caller, max_retries, initial_delay, retry_delay,
                   attempt, caught, errors, sleeps, callerResult, logged>>

\* both executors, each from its entry
ExecutorsNext ==
    \/ RequestOk
    \/ \E e \in Exceptions : RequestFails(e)
    \/ Sleep
    \/ LoopExhausted
    \/ \E v \in OperationValues : OperationReturns(v)
    \/ \E e \in Exceptions : OperationFails(e)
    \/ BackoffSleep
    \/ BackoffExhausted

SpecExecutors == (RetryInit \/ BackoffInit) /\ [][ExecutorsNext]_vars

-----------------------------------------------------------------------------
(* The work partitioner: get_metric_rates, lines 190-191 and 234-239. *)

Max(a, b) == IF a >= b THEN a ELSE b
Min(a, b) == IF a <= b THEN a ELSE b

\* a name is a sequence of characters
Digits == <<"0", "1", "2", "3", "4", "5", "6", "7", "8", "9">>

RECURSIVE Decimal(_)
Decimal(n) == IF n < 10 THEN <<Digits[n + 1]>>
              ELSE Decimal(n \div 10) \o <<Digits[(n % 10) + 1]>>

\* the name "m<i>"
MetricName(i) == <<"m">> \o Decimal(i)

\* a catalogue of n distinct names, in order
CatalogOfSize(n) == [i \in 1..n |-> MetricName(i)]

\* "thread_count = max(1, thread_count)"
ClampThreadCount(t) == Max(1, t)

\* the chunk size rounded up instead of down
ChunkSize_Ceil(total, threads) == Max(1, (total + threads - 1) \div threads)

\* "chunk_size = max(1, total_metrics // thread_count)"
ChunkSize(total, threads) == Max(1, total \div threads)

\* Python's s[i:j] with 0 <= i, as a 1-based SubSeq
Slice(s, i, j) == SubSeq(s, i + 1, Min(j, Len(s)))

\* range(0, total, step) as a sequence
RangeFrom0(total, step) ==
    [k \in 1..((total + step - 1) \div step) |-> (k - 1) * step]

\* the comprehension stopping before a last, shorter chunk
MetricChunks_DropTail(metrics, size) ==
    [k \in 1..(Len(metrics) \div size) |->
        SubSeq(metrics, (k - 1) * size + 1, k * size)]

\* "[filtered_metrics[i:i + chunk_size] for i in range(0, total_metrics, chunk_size)]"
MetricChunks(metrics, size) ==
    LET starts == RangeFrom0(Len(metrics), size)
    IN  [k \in 1..Len(starts) |-> Slice(metrics, starts[k], starts[k] + size)]

ChunkInit ==
    /\ RetryIdle
    /\ ExporterIdle
    /\ thread_count \in (-1)..MaxThreads
    /\ \E n \in 0..MaxCatalog : filtered_metrics = CatalogOfSize(n)
    /\ chunk_size = 0
    /\ metric_chunks = <<>>
    /\ cpc = "entry"

ClampThreads ==
    /\ cpc = "entry"
    /\ thread_count' = ClampThreadCount(thread_count)
    /\ cpc' = "partition"
    /\ UNCHANGED <<filtered_metrics, chunk_size, metric_chunks>>
    /\ UNCHANGED <<retryVars, exporterVars>>

Partition ==
    /\ cpc = "partition"
    /\ chunk_size' = ChunkSize(Len(filtered_metrics), thread_count)
    /\ metric_chunks' = MetricChunks(filtered_metrics, chunk_size')
    /\ cpc' = "chunked"
    /\ UNCHANGED <<thread_count, filtered_metrics>>
    /\ UNCHANGED <<retryVars, exporterVars>>

ChunkNext == ClampThreads \/ Partition

SpecChunk == ChunkInit /\ [][ChunkNext]_vars

-----------------------------------------------------------------------------
(* The data of a collection pass: names, the catalogue filter, rates, the  *)
(* sort and the threshold filter of get_metric_rates.                      *)

\* Python's None, a value not yet assigned, and the values get_metric_json
\* returns: the label-values document with its 'data' list, the list of rules
None == [none |-> TRUE]
Unset == [unset |-> TRUE]
NamesJson(catalog) == [data |-> catalog]
RulesJson(rules) == [items |-> rules]

\* names, as sequences of characters
Name_b == <<"b">>
Name_d == <<"d">>
Name_a_count == <<"a", "_", "c", "o", "u", "n", "t">>
Name_c_bucket == <<"c", "_", "b", "u", "c", "k", "e", "t">>
Name_e_sum == <<"e", "_", "s", "u", "m">>
Name_grafana_x == <<"g", "r", "a", "f", "a", "n", "a", "_", "x">>
Name_f == <<"f">>

Suffix_count == <<"_", "c", "o", "u", "n", "t">>
Suffix_bucket == <<"_", "b", "u", "c", "k", "e", "t">>
Suffix_sum == <<"_", "s", "u", "m">>
Prefix_grafana == <<"g", "r", "a", "f", "a", "n", "a", "_">>

\* str.endswith and str.startswith
EndsWith(m, suffix) ==
    /\ Len(m) >= Len(suffix)
    /\ SubSeq(m, Len(m) - Len(suffix) + 1, Len(m)) = suffix

StartsWith(m, prefix) ==
    /\ Len(m) >= Len(prefix)
    /\ SubSeq(m, 1, Len(prefix)) = prefix

\* the label-values answers of the backend: metric_names['data']
Catalogs == { <<Name_a_count, Name_b, Name_c_bucket, Name_d>>,
              <<Name_e_sum, Name_grafana_x>> }

\* the aggregation-rules answers of the backend: a list of rule objects
RuleLists == { <<>>, <<[metric |-> Name_d]>> }

\* what get_metric_json can return for each of the two URLs
NamesAnswers == {None} \cup { NamesJson(c) : c \in Catalogs }
RulesAnswers == {None} \cup { RulesJson(r) : r \in RuleLists }

\* "aggregated_metrics": the names the rules carry under 'metric'
AggregatedMetrics(aggregations) ==
    IF aggregations = None THEN {}
    ELSE LET rules == aggregations.items
         IN  { rules[k].metric :
                 k \in { j \in 1..Len(rules) : "metric" \in DOMAIN rules[j] } }

\* the filter without its suffix test
KeepMetric_NoSuffixTest(v, m, aggregated) ==
    /\ v = "dpm-finder" => ~StartsWith(m, Prefix_grafana)
    /\ m \notin aggregated

\* the condition of the comprehension "filtered_metrics = [...]"; main.py has
\* no prefix test
KeepMetric(v, m, aggregated) ==
    /\ ~\E suffix \in {Suffix_count, Suffix_bucket, Suffix_sum} : EndsWith(m, suffix)
    /\ v = "dpm-finder" => ~StartsWith(m, Prefix_grafana)
    /\ m \notin aggregated

RECURSIVE SelectKept(_, _, _)
SelectKept(v, names, aggregated) ==
    IF names = <<>> THEN <<>>
    ELSE (IF KeepMetric(v, Head(names), aggregated) THEN <<Head(names)>> ELSE <<>>)
         \o SelectKept(v, Tail(names), aggregated)

\* the comprehension over metric_names['data']
FilterCatalog(v, names, aggregations) ==
    SelectKept(v, names.data, AggregatedMetrics(aggregations))

\* the value strings a rate query can return, and float() of each, in tenths
ValueStrings == {"0.5", "1.0", "5.0"}

Float(str) ==
    CASE str = "0.5" -> 5
      [] str = "1.0" -> 10
      [] str = "5.0" -> 50

\* what one rate query of process_metric_chunk ends in: a terminal failure of
\* the executor, a body that makes response.json() or a .get raise, a
\* response without a usable value array, or a value
QueryOutcomes == {"error", "malformed", "nodata"} \cup ValueStrings

\* a dict is a sequence of <<key, value>> pairs in insertion order
Keys(dict) == { dict[k][1] : k \in 1..Len(dict) }

Lookup(dict, key) == (CHOOSE k \in 1..Len(dict) : dict[k][1] = key)

\* a list of pairs that takes every assignment as a new item
DictSet_Append(dict, key, value) == Append(dict, <<key, value>>)

\* dict[key] = value
DictSet(dict, key, value) ==
    IF key \in Keys(dict)
    THEN [dict EXCEPT ![Lookup(dict, key)] = <<key, value>>]
    ELSE Append(dict, <<key, value>>)

\* dict.update(other)
RECURSIVE DictUpdate(_, _)
DictUpdate(dict, other) ==
    IF other = <<>> THEN dict
    ELSE DictUpdate(DictSet(dict, Head(other)[1], Head(other)[2]), Tail(other))

\* sorted(items, key=lambda x: float(x[1]), reverse=True): a stable sort,
\* descending; an item goes behind every item that is not smaller
RECURSIVE InsertDesc(_, _)
InsertDesc(sorted, item) ==
    IF sorted = <<>> THEN <<item>>
    ELSE IF Float(Head(sorted)[2]) >= Float(item[2])
         THEN <<Head(sorted)>> \o InsertDesc(Tail(sorted), item)
         ELSE <<item>> \o sorted

RECURSIVE SortedDesc(_)
SortedDesc(items) ==
    IF items = <<>> THEN <<>>
    ELSE InsertDesc(SortedDesc(SubSeq(items, 1, Len(items) - 1)), items[Len(items)])

\* the threshold test with >= for >
AboveThreshold_Inclusive(dpm, threshold) == Float(dpm) >= threshold

\* "float(dpm) > min_dpm"
AboveThreshold(dpm, threshold) == Float(dpm) > threshold

RECURSIVE SelectAbove(_, _)
SelectAbove(items, threshold) ==
    IF items = <<>> THEN <<>>
    ELSE (IF AboveThreshold(Head(items)[2], threshold) THEN <<Head(items)>> ELSE <<>>)
         \o SelectAbove(Tail(items), threshold)

\* "filtered_dpm = {metric_name: dpm for metric_name, dpm in sorted_dpm
\*                  if float(dpm) > min_dpm}" over the sorted items
FilteredDpm(data, threshold) ==
    DictUpdate(<<>>, SelectAbove(SortedDesc(data), threshold))

\* str.replace of one character
ReplaceChar(m, old, new) == [k \in 1..Len(m) |-> IF m[k] = old THEN new ELSE m[k]]

\* "metric_name.replace('-', '_').replace('.', '_').replace(':', '_')"
SafeMetricName(m) ==
    ReplaceChar(ReplaceChar(ReplaceChar(m, "-", "_"), ".", "_"), ":", "_")

-----------------------------------------------------------------------------
(* The process: main, run_exporter, run_metrics_updater, one collection    *)
(* pass (get_metric_json twice, get_metric_rates, its pool of              *)
(* process_metric_chunk workers, update_prometheus_metrics) and the        *)
(* retry_with_backoff around it.  A call of make_request_with_retry is one *)
(* step here; SpecRetry has its attempts.                                  *)

\* max_retries of the initial collection and of a periodic collection
PeriodicRetries == 3
\* an initial collection with the budget of a periodic one
InitialRetries_AsPeriodic == PeriodicRetries
InitialRetries == 5
\* retry_with_backoff's default retry_delay
PassRetryDelay == 2

\* args.min_dpm as configured: 1.0, the default
MinDpms == {10}

\* args.threads as configured
ThreadCounts == {1, 10}

Range(seq) == { seq[k] : k \in 1..Len(seq) }

\* the process has not exited
ProcessAlive == mainPc # "stopped"

\* concurrent.futures.thread._shutdown, set when the interpreter finalizes
PoolShutdown == mainPc \in {"finalizing", "stopped"}

\* the thread that runs the pass is alive and inside it
PassRuns ==
    \/ owner = "main" /\ mainPc \in {"initial", "oneshot"}
    \/ owner = "updater" /\ updPc = "cycle" /\ ProcessAlive

ByUpdater == owner = "updater"

\* a caller that goes on once one future has finished
AllChunksDone_FirstDone ==
    \E c \in 1..Len(chunkStatus) : chunkStatus[c] \in {"done", "raised"}

\* a caller that waits until a first future exists and all have finished
AllChunksDone_SomeChunk ==
    /\ chunkStatus # <<>>
    /\ \A c \in 1..Len(chunkStatus) : chunkStatus[c] \in {"done", "raised"}

\* every future has finished, with a result or with an exception
AllChunksDone ==
    \A c \in 1..Len(chunkStatus) : chunkStatus[c] \in {"done", "raised"}

RunningChunks == { c \in 1..Len(chunkStatus) : chunkStatus[c] = "running" }

\* the gauges as a reader of the endpoint sees them
Gauges == Snapshot(dpm_metric, metrics_processed, last_update)

\* the children of dpm_metric after the loop of update_prometheus_metrics
\* has set the first n items of a dict
RECURSIVE LabelsSet(_, _)
LabelsSet(dict, n) ==
    IF n = 0 THEN EmptyFunction
    ELSE (SafeMetricName(dict[n][1]) :> Float(dict[n][2])) @@ LabelsSet(dict, n - 1)

\* the names a pass works on, with a failed fetch taken for an empty catalogue
PassCatalog_EmptyOnFailure(names) == IF names = None THEN NamesJson(<<>>) ELSE names

\* the names a pass works on: metric_names as fetched
PassCatalog(names) == names

\* a pass failed: its catalogue fetch failed on every attempt, or every rate
\* query ended in a terminal failure
PassFailed ==
    \/ passResult = "None"
    \/ queried # {} /\ failed = queried

PoolIdle ==
    /\ chunkStatus = <<>>
    /\ chunkPos = <<>>
    /\ chunk_results = <<>>
    /\ chunk_times = <<>>
    /\ results_queue = <<>>

\* the locals of a pass, as they are before get_metric_rates runs
PassLocalsReset ==
    /\ filtered_metrics' = <<>>
    /\ chunk_size' = 0
    /\ metric_chunks' = <<>>
    /\ chunkStatus' = <<>>
    /\ chunkPos' = <<>>
    /\ chunk_results' = <<>>
    /\ chunk_times' = <<>>
    /\ results_queue' = <<>>
    /\ dpm_data' = <<>>
    /\ processing_times' = <<>>
    /\ filtered_dpm' = <<>>
    /\ total_metrics' = 0
    /\ upos' = 0
    /\ queried' = {}
    /\ failed' = {}

PassLocalsUnchanged ==
    UNCHANGED <<filtered_metrics, chunk_size, metric_chunks, poolVars, aggVars,
                queried, failed>>

\* --port and --timeout as given: the defaults, and values at both sides of
\* the ranges main accepts; main.py has neither argument
Ports == {0, 9966, 65536}
Timeouts == {0, 60}

\* what os.getenv returns for each of the three variables of the environment
Endpoints == {"None", "https://prometheus"}
Usernames == {"None", "user"}
ApiKeys == {"None", "key"}

\* the process starts in main(), in one of its two modes, args parsed;
\* main.py has only the one-shot mode
StartOfMain ==
    /\ mode \in {"exporter", "oneshot"}
    /\ variant \in (IF mode = "exporter" THEN {"dpm-finder"} ELSE Variants)
    /\ port \in (IF variant = "main" THEN {9966} ELSE Ports)
    /\ timeout \in (IF variant = "main" THEN {60} ELSE Timeouts)
    /\ prometheus_endpoint \in Endpoints
    /\ username \in Usernames
    /\ api_key \in ApiKeys
    /\ StatsIdle
    /\ min_dpm \in MinDpms
    /\ thread_count \in ThreadCounts
    /\ mainPc = "validate"
    /\ caller = "get_metric_json"
    /\ max_retries = 0
    /\ initial_delay = 0
    /\ retry_delay = 0
    /\ attempt = 0
    /\ rpc = "idle"
    /\ caught = "none"
    /\ response = "unset"
    /\ errors = <<>>
    /\ sleeps = <<>>
    /\ callerResult = "unset"
    /\ quiet = FALSE
    /\ logged = 0
    /\ filtered_metrics = <<>>
    /\ chunk_size = 0
    /\ metric_chunks = <<>>
    /\ cpc = "idle"
    /\ exitCode = -1
    /\ shutdown_event = FALSE
    /\ http_server = FALSE
    /\ updPc = "notstarted"
    /\ cycles = 0
    /\ owner = "none"
    /\ ppc = "idle"
    /\ rb_attempt = 0
    /\ rb_budget = 0
    /\ rb_delay = 0
    /\ passResult = "unset"
    /\ main_names = [unset |-> TRUE]
    /\ main_aggs = [unset |-> TRUE]
    /\ metric_names = [unset |-> TRUE]
    /\ metric_aggregations = [unset |-> TRUE]
    /\ PoolIdle
    /\ dpm_data = <<>>
    /\ processing_times = <<>>
    /\ filtered_dpm = <<>>
    /\ total_metrics = 0
    /\ upos = 0
    /\ dpm_metric = EmptyFunction
    /\ metrics_processed = 0
    /\ last_update = 0
    /\ report = [none |-> TRUE]
    /\ published = ZeroSnapshot
    /\ scrape = "none"
    /\ lastGood = EmptyFunction
    /\ queried = {}
    /\ failed = {}
    /\ cycleStart = ZeroSnapshot
    /\ cycleCatalogOk = FALSE
    /\ cycleQueries = 0
    /\ requestAfterSignal = FALSE

\* a run whose environment holds the endpoint and the credentials
Init ==
    /\ StartOfMain
    /\ prometheus_endpoint # "None"
    /\ username # "None"
    /\ api_key # "None"

fixedVars == <<retryVars, thread_count, cpc, mode, min_dpm, configVars, statsVars>>

(* ---- main() ---- *)

\* the tests of main on its arguments: "args.exporter and (args.port < 1 or
\* args.port > 65535)" and "args.timeout < 1"; main.py has none
ArgsRejected ==
    /\ variant = "dpm-finder"
    /\ \/ mode = "exporter" /\ (port < 1 \/ port > 65535)
       \/ timeout < 1

\* main(): the arguments pass; load_dotenv and os.getenv follow, whose values
\* are not tested
ValidateArgs ==
    /\ mainPc = "validate"
    /\ ~ArgsRejected
    /\ mainPc' = "fetch_names"
    /\ UNCHANGED <<fixedVars, exitCode, shutdown_event, http_server, updPc, cycles,
                   passVars, gaugeVars, report,
                   published, scrape, lastGood, cycleStart, cycleCatalogOk,
                   cycleQueries, requestAfterSignal>>
    /\ PassLocalsUnchanged

\* main(): sys.exit(1) on an invalid port or timeout
RejectArgs ==
    /\ mainPc = "validate"
    /\ ArgsRejected
    /\ mainPc' = "stopped"
    /\ exitCode' = 1
    /\ UNCHANGED <<fixedVars, shutdown_event, http_server, updPc, cycles,
                   passVars, gaugeVars, report,
                   published, scrape, lastGood, cycleStart, cycleCatalogOk,
                   cycleQueries, requestAfterSignal>>
    /\ PassLocalsUnchanged

\* what get_metric_json returns for a URL built on the endpoint: without an
\* endpoint the URL is "None/api/...", requests.get raises on every attempt
\* and the answer is None
AnswersAt(endpoint, answers) == IF endpoint = "None" THEN {None} ELSE answers

\* main(): metric_names = get_metric_json(metric_name_url, ...)
MainFetchNames ==
    /\ mainPc = "fetch_names"
    /\ \E r \in AnswersAt(prometheus_endpoint, NamesAnswers) : main_names' = r
    /\ mainPc' = "fetch_aggs"
    /\ UNCHANGED <<fixedVars, exitCode, shutdown_event, http_server, updPc, cycles,
                   owner, ppc, rb_attempt, rb_budget, rb_delay, passResult, main_aggs,
                   metric_names, metric_aggregations, gaugeVars, report,
                   published, scrape, lastGood, cycleStart, cycleCatalogOk,
                   cycleQueries, requestAfterSignal>>
    /\ PassLocalsUnchanged

\* main(): metric_aggregations = get_metric_json(metric_aggregation_url, ...)
MainFetchAggs ==
    /\ mainPc = "fetch_aggs"
    /\ \E r \in AnswersAt(prometheus_endpoint, RulesAnswers) : main_aggs' = r
    /\ mainPc' = "dispatch"
    /\ UNCHANGED <<fixedVars, exitCode, shutdown_event, http_server, updPc, cycles,
                   owner, ppc, rb_attempt, rb_budget, rb_delay, passResult, main_names,
                   metric_names, metric_aggregations, gaugeVars, report,
                   published, scrape, lastGood, cycleStart, cycleCatalogOk,
                   cycleQueries, requestAfterSignal>>
    /\ PassLocalsUnchanged

\* main(): the one-shot call of get_metric_rates on what main fetched
CallGetMetricRates ==
    /\ mainPc = "dispatch"
    /\ mode = "oneshot"
    /\ mainPc' = "oneshot"
    /\ owner' = "main"
    /\ ppc' = "rates"
    /\ metric_names' = main_names
    /\ metric_aggregations' = main_aggs
    /\ UNCHANGED <<fixedVars, exitCode, shutdown_event, http_server, updPc, cycles,
                   rb_attempt, rb_budget, rb_delay, passResult, main_names, main_aggs,
                   gaugeVars, report,
                   published, scrape, lastGood, cycleStart, cycleCatalogOk,
                   cycleQueries, requestAfterSignal>>
    /\ PassLocalsUnchanged

\* main(): run_exporter is entered; it installs signal_handler.  What main
\* fetched is not handed to it and is never read again
CallRunExporter ==
    /\ mainPc = "dispatch"
    /\ mode = "exporter"
    /\ mainPc' = "bind"
    /\ main_names' = Unset
    /\ main_aggs' = Unset
    /\ UNCHANGED <<fixedVars, exitCode, shutdown_event, http_server, updPc, cycles,
                   owner, ppc, rb_attempt, rb_budget, rb_delay, passResult,
                   metric_names, metric_aggregations, gaugeVars, report,
                   published, scrape, lastGood, cycleStart, cycleCatalogOk,
                   cycleQueries, requestAfterSignal>>
    /\ PassLocalsUnchanged

(* ---- run_exporter ---- *)

\* start_http_server(port) succeeds; retry_with_backoff(initial_metrics_collection,
\* max_retries=5) begins
StartHttpServer ==
    /\ mainPc = "bind"
    /\ http_server' = TRUE
    /\ mainPc' = "initial"
    /\ owner' = "main"
    /\ ppc' = "names"
    /\ rb_attempt' = 0
    /\ rb_budget' = InitialRetries
    /\ rb_delay' = PassRetryDelay
    /\ UNCHANGED <<fixedVars, exitCode, shutdown_event, updPc, cycles,
                   passResult, main_names, main_aggs,
                   metric_names, metric_aggregations, gaugeVars, report,
                   published, scrape, lastGood, cycleStart, cycleCatalogOk,
                   cycleQueries, requestAfterSignal>>
    /\ PassLocalsUnchanged

\* an exit that reports success whatever its argument
SysExit_Success(status) == 0

\* the exit status of the process after sys.exit(status)
SysExit(status) == status

\* start_http_server raises: sys.exit(1)
StartHttpServerFails ==
    /\ mainPc = "bind"
    /\ mainPc' = "stopped"
    /\ exitCode' = SysExit(1)
    /\ UNCHANGED <<fixedVars, shutdown_event, http_server, updPc, cycles,
                   passVars, gaugeVars, report,
                   published, scrape, lastGood, cycleStart, cycleCatalogOk,
                   cycleQueries, requestAfterSignal>>
    /\ PassLocalsUnchanged

\* an exporter that gives up when its initial collection has failed
AfterInitial_ExitsOnFailure(initial_success) ==
    IF initial_success = "None" THEN "stopped" ELSE "loop"

\* where run_exporter goes with initial_success: a failure is logged only
AfterInitial(initial_success) == "loop"

\* retry_with_backoff has returned initial_success; the updater thread is
\* started and the main thread enters its loop
StartUpdater ==
    /\ mainPc = "initial"
    /\ owner = "main"
    /\ ppc = "returned"
    /\ mainPc' = AfterInitial(passResult)
    /\ updPc' = "loop_test"
    /\ owner' = "none"
    /\ ppc' = "idle"
    /\ UNCHANGED <<fixedVars, exitCode, shutdown_event, http_server, cycles,
                   rb_attempt, rb_budget, rb_delay, passResult, main_names, main_aggs,
                   metric_names, metric_aggregations, gaugeVars, report,
                   published, scrape, lastGood, cycleStart, cycleCatalogOk,
                   cycleQueries, requestAfterSignal>>
    /\ PassLocalsUnchanged

\* a handler that flips the event
EventSet_Toggles(event) == ~event

\* shutdown_event.set()
EventSet(event) == TRUE

\* signal_handler, run by the main thread on SIGINT or SIGTERM:
\* shutdown_event.set(), then sys.exit(0) raises SystemExit where the main
\* thread stands; a pass the main thread was running is left where it is
SignalHandler ==
    /\ mainPc \in {"bind", "initial", "loop"}
    /\ shutdown_event' = EventSet(shutdown_event)
    /\ mainPc' = "unwinding"
    /\ ppc' = IF owner = "main" THEN "abandoned" ELSE ppc
    /\ UNCHANGED <<fixedVars, exitCode, http_server, updPc, cycles,
                   owner, rb_attempt, rb_budget, rb_delay, passResult, main_names,
                   main_aggs, metric_names, metric_aggregations, gaugeVars, report,
                   published, scrape, lastGood, cycleStart, cycleCatalogOk,
                   cycleQueries, requestAfterSignal>>
    /\ PassLocalsUnchanged

\* signal_handler runs again while SystemExit unwinds the main thread or the
\* interpreter finalizes: the event is set again and a second SystemExit is
\* raised where the main thread stands.  It ends a wait for the workers the
\* main thread was in: that of the "with" block, and, at finalization, the
\* join of the pool's threads, which the interpreter either resumes or gives
\* up, exiting with the workers still running
SignalAgain ==
    /\ mainPc \in {"unwinding", "finalizing"}
    /\ shutdown_event' = EventSet(shutdown_event)
    /\ \/ /\ mainPc = "unwinding"
          /\ mainPc' = IF owner = "main" /\ ~AllChunksDone THEN "finalizing" ELSE mainPc
          /\ UNCHANGED <<exitCode, updPc>>
       \/ /\ mainPc = "finalizing"
          /\ UNCHANGED <<mainPc, exitCode, updPc>>
       \/ /\ mainPc = "finalizing"
          /\ ~AllChunksDone
          /\ mainPc' = "stopped"
          /\ exitCode' = 0
          /\ updPc' = IF updPc \in {"notstarted", "stopped"} THEN updPc ELSE "killed"
    /\ UNCHANGED <<fixedVars, http_server, cycles,
                   passVars, gaugeVars, report,
                   published, scrape, lastGood, cycleStart, cycleCatalogOk,
                   cycleQueries, requestAfterSignal>>
    /\ PassLocalsUnchanged

\* SystemExit leaves run_exporter and main: the "with ThreadPoolExecutor" of a
\* pass of the main thread waits for its workers on the way, "finally" sets
\* the event again, and the interpreter begins to finalize
Unwind ==
    /\ mainPc = "unwinding"
    /\ owner = "main" => AllChunksDone
    /\ mainPc' = "finalizing"
    /\ UNCHANGED <<fixedVars, exitCode, shutdown_event, http_server, updPc, cycles,
                   passVars, gaugeVars, report,
                   published, scrape, lastGood, cycleStart, cycleCatalogOk,
                   cycleQueries, requestAfterSignal>>
    /\ PassLocalsUnchanged

\* the interpreter has joined the pool's worker threads and exits with
\* status 0; the daemon updater thread ends where it stands
ProcessExit ==
    /\ mainPc = "finalizing"
    /\ AllChunksDone
    /\ mainPc' = "stopped"
    /\ exitCode' = 0
    /\ updPc' = IF updPc \in {"notstarted", "stopped"} THEN updPc ELSE "killed"
    /\ UNCHANGED <<fixedVars, shutdown_event, http_server, cycles,
                   passVars, gaugeVars, report,
                   published, scrape, lastGood, cycleStart, cycleCatalogOk,
                   cycleQueries, requestAfterSignal>>
    /\ PassLocalsUnchanged

(* ---- run_metrics_updater ---- *)

\* a loop that goes round whatever the event
LoopTest_Ignored(event) == TRUE

\* "while not shutdown_event.is_set()"
LoopTest(event) == ~event

\* "while not shutdown_event.is_set()" finds the event clear:
\* retry_with_backoff(collect_and_update_metrics, max_retries=3) begins
UpdaterBeginsCycle ==
    /\ updPc = "loop_test"
    /\ ProcessAlive
    /\ LoopTest(shutdown_event)
    /\ cycles < MaxCycles
    /\ cycles' = cycles + 1
    /\ updPc' = "cycle"
    /\ owner' = "updater"
    /\ ppc' = "names"
    /\ rb_attempt' = 0
    /\ rb_budget' = PeriodicRetries
    /\ rb_delay' = PassRetryDelay
    /\ passResult' = "unset"
    /\ metric_names' = Unset
    /\ metric_aggregations' = Unset
    /\ PassLocalsReset
    /\ cycleStart' = Gauges
    /\ cycleCatalogOk' = FALSE
    /\ cycleQueries' = 0
    /\ UNCHANGED <<fixedVars, mainPc, exitCode, shutdown_event, http_server,
                   main_names, main_aggs, gaugeVars, report,
                   published, scrape, lastGood, requestAfterSignal>>

\* "while not shutdown_event.is_set()" finds the event set: the loop ends
UpdaterSeesShutdown ==
    /\ updPc = "loop_test"
    /\ ProcessAlive
    /\ ~LoopTest(shutdown_event)
    /\ updPc' = "stopped"
    /\ UNCHANGED <<fixedVars, mainPc, exitCode, shutdown_event, http_server, cycles,
                   passVars, gaugeVars, report,
                   published, scrape, lastGood, cycleStart, cycleCatalogOk,
                   cycleQueries, requestAfterSignal>>
    /\ PassLocalsUnchanged

\* an updater that ends when a cycle has failed
AfterCycle_EndsOnFailure(result) == IF result = "None" THEN "stopped" ELSE "wait"

\* an updater that goes round again at once when a cycle has failed
AfterCycle_AgainOnFailure(result) == IF result = "None" THEN "loop_test" ELSE "wait"

\* where the updater goes when retry_with_backoff has returned: its value is
\* not looked at
AfterCycle(result) == "wait"

\* retry_with_backoff has returned; the updater reaches shutdown_event.wait
CycleDone ==
    /\ updPc = "cycle"
    /\ ProcessAlive
    /\ owner = "updater"
    /\ ppc = "returned"
    /\ updPc' = AfterCycle(passResult)
    /\ owner' = "none"
    /\ ppc' = "idle"
    /\ UNCHANGED <<fixedVars, mainPc, exitCode, shutdown_event, http_server, cycles,
                   rb_attempt, rb_budget, rb_delay, passResult, main_names, main_aggs,
                   metric_names, metric_aggregations, gaugeVars, report,
                   published, scrape, lastGood, cycleStart, cycleCatalogOk,
                   cycleQueries, requestAfterSignal>>
    /\ PassLocalsUnchanged

\* a wait that runs to its timeout whatever the event
WaitTimedOut_Always(event) == TRUE

\* Event.wait(timeout) returns False, after the timeout, only while the event
\* is not set
WaitTimedOut(event) == ~event

\* shutdown_event.wait(timeout=update_interval) returns False: the interval
\* has elapsed
WaitElapsed ==
    /\ updPc = "wait"
    /\ ProcessAlive
    /\ WaitTimedOut(shutdown_event)
    /\ updPc' = "loop_test"
    /\ UNCHANGED <<fixedVars, mainPc, exitCode, shutdown_event, http_server, cycles,
                   passVars, gaugeVars, report,
                   published, scrape, lastGood, cycleStart, cycleCatalogOk,
                   cycleQueries, requestAfterSignal>>
    /\ PassLocalsUnchanged

\* shutdown_event.wait returns True: break
WaitInterrupted ==
    /\ updPc = "wait"
    /\ ProcessAlive
    /\ shutdown_event
    /\ updPc' = "stopped"
    /\ UNCHANGED <<fixedVars, mainPc, exitCode, shutdown_event, http_server, cycles,
                   passVars, gaugeVars, report,
                   published, scrape, lastGood, cycleStart, cycleCatalogOk,
                   cycleQueries, requestAfterSignal>>
    /\ PassLocalsUnchanged

(* ---- one pass: collect_and_update_metrics / initial_metrics_collection ---- *)

\* a request of the updater thread or of its pool, after the event was set
SentAfterSignal == requestAfterSignal \/ (ByUpdater /\ shutdown_event)

\* metric_names = get_metric_json(metric_name_url, ...)
FetchNames ==
    /\ PassRuns
    /\ ppc = "names"
    /\ \E r \in AnswersAt(prometheus_endpoint, NamesAnswers) :
         /\ metric_names' = r
         /\ cycleCatalogOk' = (cycleCatalogOk \/ (ByUpdater /\ r # None))
    /\ ppc' = "aggs"
    /\ requestAfterSignal' = SentAfterSignal
    /\ UNCHANGED <<fixedVars, mainPc, exitCode, shutdown_event, http_server, updPc,
                   cycles, owner, rb_attempt, rb_budget, rb_delay, passResult,
                   main_names, main_aggs, metric_aggregations, gaugeVars, report,
                   published, scrape, lastGood, cycleStart, cycleQueries>>
    /\ PassLocalsUnchanged

\* metric_aggregations = get_metric_json(metric_aggregation_url, ...)
FetchAggs ==
    /\ PassRuns
    /\ ppc = "aggs"
    /\ \E r \in AnswersAt(prometheus_endpoint, RulesAnswers) : metric_aggregations' = r
    /\ ppc' = "rates"
    /\ requestAfterSignal' = SentAfterSignal
    /\ UNCHANGED <<fixedVars, mainPc, exitCode, shutdown_event, http_server, updPc,
                   cycles, owner, rb_attempt, rb_budget, rb_delay, passResult,
                   main_names, main_aggs, metric_names, gaugeVars, report,
                   published, scrape, lastGood, cycleStart, cycleCatalogOk,
                   cycleQueries>>
    /\ PassLocalsUnchanged

\* the operation raises; retry_with_backoff's except clause either goes to
\* sleep or returns None
OperationRaises ==
    /\ ppc' = IF PassAttemptsRemain(rb_attempt, rb_budget) THEN "backoff" ELSE "returned"
    /\ passResult' = IF PassAttemptsRemain(rb_attempt, rb_budget) THEN passResult ELSE "None"

\* exporter: "else: raise Exception('Failed to fetch metric names')"
NamesMissing ==
    /\ PassRuns
    /\ ppc = "rates"
    /\ mode = "exporter"
    /\ PassCatalog(metric_names) = None
    /\ OperationRaises
    /\ UNCHANGED <<fixedVars, mainPc, exitCode, shutdown_event, http_server, updPc,
                   cycles, owner, rb_attempt, rb_budget, rb_delay,
                   main_names, main_aggs, metric_names, metric_aggregations,
                   gaugeVars, report,
                   published, scrape, lastGood, cycleStart, cycleCatalogOk,
                   cycleQueries, requestAfterSignal>>
    /\ PassLocalsUnchanged

\* one-shot: get_metric_rates returns False on "metric_names is None"; main
\* ignores the value and returns
OneShotNamesMissing ==
    /\ PassRuns
    /\ ppc = "rates"
    /\ mode = "oneshot"
    /\ PassCatalog(metric_names) = None
    /\ ppc' = "returned"
    /\ passResult' = "False"
    /\ mainPc' = "stopped"
    /\ exitCode' = 0
    /\ UNCHANGED <<fixedVars, shutdown_event, http_server, updPc,
                   cycles, owner, rb_attempt, rb_budget, rb_delay,
                   main_names, main_aggs, metric_names, metric_aggregations,
                   gaugeVars, report,
                   published, scrape, lastGood, cycleStart, cycleCatalogOk,
                   cycleQueries, requestAfterSignal>>
    /\ PassLocalsUnchanged

\* retry_with_backoff: time.sleep(retry_delay); retry_delay *= 2; the next
\* attempt calls the operation again
PassBackoff ==
    /\ PassRuns
    /\ ppc = "backoff"
    /\ rb_attempt' = rb_attempt + 1
    /\ rb_delay' = Backoff(rb_delay)
    /\ ppc' = "names"
    /\ metric_names' = Unset
    /\ metric_aggregations' = Unset
    /\ PassLocalsReset
    /\ UNCHANGED <<fixedVars, mainPc, exitCode, shutdown_event, http_server, updPc,
                   cycles, owner, rb_budget, passResult,
                   main_names, main_aggs, gaugeVars, report,
                   published, scrape, lastGood, cycleStart, cycleCatalogOk,
                   cycleQueries, requestAfterSignal>>

\* a filter that leaves the rules it is given aside
FilteredOf_RulesIgnored(names, rules) == FilterCatalog(variant, PassCatalog(names), None)

\* get_metric_rates up to the submission of the chunks (lines 190-250)
FilteredOf(names, rules) == FilterCatalog(variant, PassCatalog(names), rules)

ChunksOf(names, rules) ==
    MetricChunks(FilteredOf(names, rules),
                 ChunkSize(Len(FilteredOf(names, rules)), ClampThreadCount(thread_count)))

SubmitChunks ==
    /\ PassRuns
    /\ ppc = "rates"
    /\ PassCatalog(metric_names) # None
    /\ ChunksOf(metric_names, metric_aggregations) # <<>> => ~PoolShutdown
    /\ filtered_metrics' = FilteredOf(metric_names, metric_aggregations)
    /\ chunk_size' = ChunkSize(Len(filtered_metrics'), ClampThreadCount(thread_count))
    /\ metric_chunks' = MetricChunks(filtered_metrics', chunk_size')
    /\ chunkStatus' = [c \in 1..Len(metric_chunks') |-> "queued"]
    /\ chunkPos' = [c \in 1..Len(metric_chunks') |-> 0]
    /\ chunk_results' = [c \in 1..Len(metric_chunks') |-> <<>>]
    /\ chunk_times' = [c \in 1..Len(metric_chunks') |-> <<>>]
    /\ results_queue' = <<>>
    /\ queried' = {}
    /\ failed' = {}
    /\ ppc' = "pool"
    /\ UNCHANGED <<fixedVars, procVars, owner, rb_attempt, rb_budget, rb_delay,
                   passResult, main_names, main_aggs, metric_names,
                   metric_aggregations, aggVars, gaugeVars, report,
                   published, scrape, lastGood, cycleStart, cycleCatalogOk,
                   cycleQueries, requestAfterSignal>>


\* executor.submit raises RuntimeError once the interpreter finalizes; the
\* exception leaves get_metric_rates and the operation
SubmitRefused ==
    /\ PassRuns
    /\ ppc = "rates"
    /\ mode = "exporter"
    /\ PassCatalog(metric_names) # None
    /\ ChunksOf(metric_names, metric_aggregations) # <<>>
    /\ PoolShutdown
    /\ filtered_metrics' = FilteredOf(metric_names, metric_aggregations)
    /\ chunk_size' = ChunkSize(Len(filtered_metrics'), ClampThreadCount(thread_count))
    /\ metric_chunks' = MetricChunks(filtered_metrics', chunk_size')
    /\ OperationRaises
    /\ UNCHANGED <<fixedVars, procVars, owner, rb_attempt, rb_budget, rb_delay,
                   main_names, main_aggs, metric_names,
                   metric_aggregations, poolVars, aggVars, gaugeVars, report,
                   published, scrape, lastGood, queried, failed, cycleStart, cycleCatalogOk,
                   cycleQueries, requestAfterSignal>>

\* a worker that returns with the first value it has got
ChunkEnds_AtFirstValue(o, pos, chunk) == o \in ValueStrings \/ pos = Len(chunk)

\* a worker that gives up its chunk at the first terminal failure
ChunkEnds_OnError(o, pos, chunk) == o = "error" \/ pos = Len(chunk)

\* "for metric in chunk" is left after the last name only: a terminal failure
\* takes the "continue", an exception of the parse is caught in the loop body
ChunkEnds(o, pos, chunk) == pos = Len(chunk)

\* a worker that takes the names of its chunk from the end
NextMetric_FromEnd(c) == metric_chunks[c][Len(metric_chunks[c]) - chunkPos[c]]

\* "for metric in chunk": the name the worker of chunk c queries next
NextMetric(c) == metric_chunks[c][chunkPos[c] + 1]

\* a pool that starts a thread for every task submitted
WorkerFree_Always == TRUE

\* ThreadPoolExecutor(max_workers=thread_count): a task is taken up only by
\* one of at most thread_count threads, each running one task at a time
WorkerFree == Cardinality(RunningChunks) < ClampThreadCount(thread_count)

\* a free worker thread of the pool takes the next queued chunk
StartChunk(c) ==
    /\ ProcessAlive
    /\ chunkStatus[c] = "queued"
    /\ \A b \in 1..(c - 1) : chunkStatus[b] # "queued"
    /\ WorkerFree
    /\ chunkStatus' = [chunkStatus EXCEPT ![c] = "running"]
    /\ UNCHANGED <<fixedVars, procVars, passVars, filtered_metrics, chunk_size,
                   metric_chunks, chunkPos, chunk_results, chunk_times,
                   results_queue, aggVars, gaugeVars, report, histVars>>

\* process_metric_chunk: one iteration of "for metric in chunk", the call of
\* make_request_with_retry ending in outcome o; after the last name,
\* results_queue.put((chunk_results, chunk_times))
QueryMetric(c, o) ==
    /\ ProcessAlive
    /\ chunkStatus[c] = "running"
    /\ LET metric == NextMetric(c)
           results == IF o \in ValueStrings
                      THEN DictSet(chunk_results[c], metric, o)
                      ELSE chunk_results[c]
           times == Append(chunk_times[c], metric)
           last == ChunkEnds(o, chunkPos[c] + 1, metric_chunks[c])
       IN  /\ chunk_results' = [chunk_results EXCEPT ![c] = results]
           /\ chunk_times' = [chunk_times EXCEPT ![c] = times]
           /\ chunkPos' = [chunkPos EXCEPT ![c] = @ + 1]
           /\ chunkStatus' = IF last THEN [chunkStatus EXCEPT ![c] = "done"]
                             ELSE chunkStatus
           /\ results_queue' = IF last THEN Append(results_queue, <<results, times>>)
                               ELSE results_queue
           /\ queried' = queried \cup {metric}
           /\ failed' = IF o = "error" THEN failed \cup {metric} ELSE failed
    /\ cycleQueries' = IF ByUpdater THEN cycleQueries + 1 ELSE cycleQueries
    /\ requestAfterSignal' = SentAfterSignal
    /\ UNCHANGED <<fixedVars, procVars, passVars, filtered_metrics, chunk_size,
                   metric_chunks, aggVars, gaugeVars, report,
                   published, scrape, lastGood, cycleStart, cycleCatalogOk>>

\* the "with ThreadPoolExecutor" block is left: the workers have returned and
\* their locals are gone
PoolGone ==
    /\ chunkStatus' = <<>>
    /\ chunkPos' = <<>>
    /\ chunk_results' = <<>>
    /\ chunk_times' = <<>>

\* get_metric_rates returns and its locals are gone
RatesLocalsGone ==
    /\ filtered_metrics' = <<>>
    /\ chunk_size' = 0
    /\ metric_chunks' = <<>>
    /\ dpm_data' = <<>>
    /\ processing_times' = <<>>
    /\ filtered_dpm' = <<>>
    /\ total_metrics' = 0
    /\ upos' = 0

\* a drain that keeps what the last tuple of the queue holds
MergeQueue_LastOnly(queue) ==
    IF queue = <<>> THEN <<>> ELSE queue[Len(queue)][1]

\* "while not results_queue.empty(): ... dpm_data.update(chunk_results)"
RECURSIVE MergeQueue(_)
MergeQueue(queue) ==
    IF queue = <<>> THEN <<>>
    ELSE DictUpdate(MergeQueue(SubSeq(queue, 1, Len(queue) - 1)), queue[Len(queue)][1])

\* "processing_times.extend(chunk_times)" over the queue
RECURSIVE TimesOfQueue(_)
TimesOfQueue(queue) ==
    IF queue = <<>> THEN <<>> ELSE Head(queue)[2] \o TimesOfQueue(Tail(queue))

\* the lines of the one-shot report: main.py tests the threshold while it
\* writes the sorted items, dpm-finder.py writes filtered_dpm
ReportLines(v, data, threshold) ==
    IF v = "main" THEN SelectAbove(SortedDesc(data), threshold)
    ELSE FilteredDpm(data, threshold)

\* every future has completed: the queue is drained, the results are sorted
\* and filtered (lines 252-283); in exporter mode update_prometheus_metrics
\* is entered
AggregateForExporter ==
    /\ PassRuns
    /\ ppc = "pool"
    /\ mode = "exporter"
    /\ AllChunksDone
    /\ dpm_data' = MergeQueue(results_queue)
    /\ processing_times' = TimesOfQueue(results_queue)
    /\ results_queue' = <<>>
    /\ filtered_dpm' = FilteredDpm(dpm_data', min_dpm)
    /\ total_metrics' = Len(filtered_metrics)
    /\ upos' = 0
    /\ ppc' = "update"
    /\ PoolGone
    /\ UNCHANGED <<fixedVars, procVars, owner, rb_attempt, rb_budget, rb_delay,
                   passResult, main_names, main_aggs, metric_names,
                   metric_aggregations, filtered_metrics, chunk_size, metric_chunks,
                   gaugeVars, report, histVars>>

\* the same in a one-shot run, which writes the report and returns True;
\* main returns
AggregateAndReport ==
    /\ PassRuns
    /\ ppc = "pool"
    /\ mode = "oneshot"
    /\ AllChunksDone
    /\ dpm_data' = MergeQueue(results_queue)
    /\ processing_times' = TimesOfQueue(results_queue)
    /\ results_queue' = <<>>
    /\ filtered_dpm' = IF variant = "main" THEN <<>> ELSE FilteredDpm(dpm_data', min_dpm)
    /\ total_metrics' = Len(filtered_metrics)
    /\ report' = [lines |-> ReportLines(variant, dpm_data', min_dpm)]
    /\ PoolGone
    /\ ppc' = "returned"
    /\ passResult' = "True"
    /\ mainPc' = "stopped"
    /\ exitCode' = 0
    /\ UNCHANGED <<fixedVars, shutdown_event, http_server, updPc, cycles,
                   owner, rb_attempt, rb_budget, rb_delay,
                   main_names, main_aggs, metric_names,
                   metric_aggregations, filtered_metrics, chunk_size, metric_chunks,
                   upos, gaugeVars, histVars>>

(* ---- update_prometheus_metrics ---- *)

\* dpm_metric.clear()
UpdateClear ==
    /\ PassRuns
    /\ ppc = "update"
    /\ upos = 0
    /\ dpm_metric' = EmptyFunction
    /\ upos' = 1
    /\ UNCHANGED <<fixedVars, procVars, passVars, filtered_metrics, chunk_size,
                   metric_chunks, poolVars, dpm_data, processing_times, filtered_dpm,
                   total_metrics, metrics_processed, last_update, report, histVars>>

\* dpm_metric.labels(metric_name=safe_metric_name).set(float(dpm_value))
UpdateLabel ==
    /\ PassRuns
    /\ ppc = "update"
    /\ upos \in 1..Len(filtered_dpm)
    /\ dpm_metric' = (SafeMetricName(filtered_dpm[upos][1]) :> Float(filtered_dpm[upos][2]))
                     @@ dpm_metric
    /\ upos' = upos + 1
    /\ UNCHANGED <<fixedVars, procVars, passVars, filtered_metrics, chunk_size,
                   metric_chunks, poolVars, dpm_data, processing_times, filtered_dpm,
                   total_metrics, metrics_processed, last_update, report, histVars>>

\* runtime_metric.set, avg_processing_time_metric.set, then
\* metrics_processed_metric._value._value = performance_data['total_metrics']
UpdateProcessed ==
    /\ PassRuns
    /\ ppc = "update"
    /\ upos = Len(filtered_dpm) + 1
    /\ metrics_processed' = total_metrics
    /\ upos' = upos + 1
    /\ UNCHANGED <<fixedVars, procVars, passVars, filtered_metrics, chunk_size,
                   metric_chunks, poolVars, dpm_data, processing_times, filtered_dpm,
                   total_metrics, dpm_metric, last_update, report, histVars>>

\* processing_rate_metric.set, then last_update_metric.set(...); the update
\* is complete, get_metric_rates returns True and so does the operation
UpdateLastUpdate ==
    /\ PassRuns
    /\ ppc = "update"
    /\ upos = Len(filtered_dpm) + 2
    /\ last_update' = published.updated + 1
    /\ RatesLocalsGone
    /\ ppc' = "returned"
    /\ passResult' = "True"
    /\ published' = Snapshot(dpm_metric, metrics_processed, last_update')
    /\ lastGood' = IF queried # {} /\ failed = queried THEN lastGood ELSE dpm_metric
    /\ UNCHANGED <<fixedVars, procVars, owner, rb_attempt, rb_budget, rb_delay,
                   main_names, main_aggs, metric_names, metric_aggregations,
                   poolVars, dpm_metric, metrics_processed, report,
                   scrape, queried, failed, cycleStart, cycleCatalogOk, cycleQueries,
                   requestAfterSignal>>

(* ---- the exposition endpoint ---- *)

\* the snapshot a running update_prometheus_metrics is writing; outside an
\* update there is none but the published one
Incoming ==
    IF ppc = "update"
    THEN Snapshot(LabelsSet(filtered_dpm, Len(filtered_dpm)), total_metrics,
                  published.updated + 1)
    ELSE published

\* a GET of /metrics, served by the thread of start_http_server: it reads the
\* gauges as they are, a whole snapshot (the published one or the incoming
\* one) or a mixture
Scrape ==
    /\ http_server
    /\ ProcessAlive
    /\ scrape' = IF Gauges \in {published, Incoming} THEN "whole" ELSE "torn"
    /\ UNCHANGED <<fixedVars, procVars, passVars, filtered_metrics, chunk_size,
                   metric_chunks, poolVars, aggVars, gaugeVars, report,
                   published, lastGood, queried, failed, cycleStart, cycleCatalogOk,
                   cycleQueries, requestAfterSignal>>

Next ==
    \/ ValidateArgs
    \/ RejectArgs
    \/ MainFetchNames
    \/ MainFetchAggs
    \/ CallGetMetricRates
    \/ CallRunExporter
    \/ StartHttpServer
    \/ StartHttpServerFails
    \/ StartUpdater
    \/ SignalHandler
    \/ SignalAgain
    \/ Unwind
    \/ ProcessExit
    \/ UpdaterBeginsCycle
    \/ UpdaterSeesShutdown
    \/ CycleDone
    \/ WaitElapsed
    \/ WaitInterrupted
    \/ FetchNames
    \/ FetchAggs
    \/ NamesMissing
    \/ OneShotNamesMissing
    \/ PassBackoff
    \/ SubmitChunks
    \/ SubmitRefused
    \/ \E c \in 1..Len(chunkStatus) : StartChunk(c)
    \/ \E c \in 1..Len(chunkStatus) : \E o \in QueryOutcomes : QueryMetric(c, o)
    \/ AggregateForExporter
    \/ AggregateAndReport
    \/ UpdateClear
    \/ UpdateLabel
    \/ UpdateProcessed
    \/ UpdateLastUpdate
    \/ Scrape

Spec == Init /\ [][Next]_vars

(* ---- main() up to its first requests, for the configuration ---- *)

ConfigNext ==
    \/ ValidateArgs
    \/ RejectArgs
    \/ MainFetchNames
    \/ MainFetchAggs

SpecConfig == StartOfMain /\ [][ConfigNext]_vars

(* ---- the exporter from the moment it serves, for the shutdown ---- *)

\* run_exporter has bound the endpoint and its initial collection has used up
\* its retries without obtaining the names: the gauges are as they were at
\* import, retry_with_backoff has returned None, the updater is about to be
\* started
ServingInit ==
    /\ RetryIdle
    /\ mode = "exporter"
    /\ port = 9966
    /\ timeout = 60
    /\ prometheus_endpoint = "https://prometheus"
    /\ username = "user"
    /\ api_key = "key"
    /\ StatsIdle
    /\ min_dpm \in MinDpms
    /\ thread_count \in ThreadCounts
    /\ filtered_metrics = <<>>
    /\ chunk_size = 0
    /\ metric_chunks = <<>>
    /\ cpc = "idle"
    /\ mainPc = "initial"
    /\ exitCode = -1
    /\ shutdown_event = FALSE
    /\ http_server = TRUE
    /\ updPc = "notstarted"
    /\ cycles = 0
    /\ owner = "main"
    /\ ppc = "returned"
    /\ rb_attempt = InitialRetries - 1
    /\ rb_budget = InitialRetries
    /\ rb_delay = PassRetryDelay * 16
    /\ passResult = "None"
    /\ main_names = Unset
    /\ main_aggs = Unset
    /\ metric_names = None
    /\ metric_aggregations = None
    /\ PoolIdle
    /\ dpm_data = <<>>
    /\ processing_times = <<>>
    /\ filtered_dpm = <<>>
    /\ total_metrics = 0
    /\ upos = 0
    /\ dpm_metric = EmptyFunction
    /\ metrics_processed = 0
    /\ last_update = 0
    /\ report = None
    /\ published = ZeroSnapshot
    /\ scrape = "none"
    /\ lastGood = EmptyFunction
    /\ queried = {}
    /\ failed = {}
    /\ cycleStart = ZeroSnapshot
    /\ cycleCatalogOk = FALSE
    /\ cycleQueries = 0
    /\ requestAfterSignal = FALSE

\* the steps of a pool's worker threads
WorkerStep ==
    \/ \E c \in 1..Len(chunkStatus) : StartChunk(c)
    \/ \E c \in 1..Len(chunkStatus) : \E o \in QueryOutcomes : QueryMetric(c, o)

\* the steps of the main thread, of the updater thread and of its workers
\* from there on; reads of the endpoint are left out
ServingNext ==
    \/ StartUpdater
    \/ SignalHandler
    \/ SignalAgain
    \/ Unwind
    \/ ProcessExit
    \/ UpdaterBeginsCycle
    \/ UpdaterSeesShutdown
    \/ CycleDone
    \/ WaitElapsed
    \/ WaitInterrupted
    \/ FetchNames
    \/ FetchAggs
    \/ NamesMissing
    \/ PassBackoff
    \/ SubmitChunks
    \/ SubmitRefused
    \/ WorkerStep
    \/ AggregateForExporter
    \/ UpdateClear
    \/ UpdateLabel
    \/ UpdateProcessed
    \/ UpdateLastUpdate

\* what the scheduling guarantees once a signal was handled: SystemExit
\* unwinds the main thread and the interpreter exits, and the workers of a
\* pool run on, each request ending in an answer or in a terminal failure
\* since it has a timeout and a bounded number of attempts.  Only that one of
\* these steps is taken while one is possible is assumed
ShutdownStep == Unwind \/ ProcessExit \/ WorkerStep

SpecShutdown == ServingInit /\ [][ServingNext]_vars /\ WF_vars(ShutdownStep)

(* ---- the pool of one pass of a one-shot run, with more chunks ---- *)

\* a catalogue that keeps three names, and the values of --threads that are
\* raised to 1 or give one chunk, more chunks than workers, and more workers
\* than chunks
PoolCatalogs == { <<Name_a_count, Name_b, Name_c_bucket, Name_d, Name_f>> }
PoolThreadCounts == {0, 1, 2, 10}

\* main of dpm-finder.py has fetched the names and the rules and has called
\* get_metric_rates in a one-shot run
PoolInit ==
    /\ RetryIdle
    /\ mode = "oneshot"
    /\ port = 9966
    /\ timeout = 60
    /\ prometheus_endpoint = "https://prometheus"
    /\ username = "user"
    /\ api_key = "key"
    /\ StatsIdle
    /\ min_dpm \in MinDpms
    /\ thread_count \in { ClampThreadCount(t) : t \in PoolThreadCounts }
    /\ filtered_metrics = <<>>
    /\ chunk_size = 0
    /\ metric_chunks = <<>>
    /\ cpc = "idle"
    /\ mainPc = "oneshot"
    /\ exitCode = -1
    /\ shutdown_event = FALSE
    /\ http_server = FALSE
    /\ updPc = "notstarted"
    /\ cycles = 0
    /\ owner = "main"
    /\ ppc = "rates"
    /\ rb_attempt = 0
    /\ rb_budget = 0
    /\ rb_delay = 0
    /\ passResult = "unset"
    /\ main_names \in { NamesJson(c) : c \in PoolCatalogs }
    /\ main_aggs \in RulesAnswers
    /\ metric_names = main_names
    /\ metric_aggregations = main_aggs
    /\ PoolIdle
    /\ dpm_data = <<>>
    /\ processing_times = <<>>
    /\ filtered_dpm = <<>>
    /\ total_metrics = 0
    /\ upos = 0
    /\ dpm_metric = EmptyFunction
    /\ metrics_processed = 0
    /\ last_update = 0
    /\ report = None
    /\ published = ZeroSnapshot
    /\ scrape = "none"
    /\ lastGood = EmptyFunction
    /\ queried = {}
    /\ failed = {}
    /\ cycleStart = ZeroSnapshot
    /\ cycleCatalogOk = FALSE
    /\ cycleQueries = 0
    /\ requestAfterSignal = FALSE

\* process_metric_chunk ends in an exception that nothing in it catches: the
\* future holds the exception, nothing is put on the queue, and the worker
\* thread is free again
WorkerRaises(c) ==
    /\ ProcessAlive
    /\ chunkStatus[c] = "running"
    /\ chunkStatus' = [chunkStatus EXCEPT ![c] = "raised"]
    /\ UNCHANGED <<fixedVars, procVars, passVars, filtered_metrics, chunk_size,
                   metric_chunks, chunkPos, chunk_results, chunk_times,
                   results_queue, aggVars, gaugeVars, report, histVars>>

PoolNext ==
    \/ SubmitChunks
    \/ \E c \in 1..Len(chunkStatus) : StartChunk(c)
    \/ \E c \in 1..Len(chunkStatus) : \E o \in QueryOutcomes : QueryMetric(c, o)
    \/ \E c \in 1..Len(chunkStatus) : WorkerRaises(c)
    \/ AggregateAndReport

SpecPool == PoolInit /\ [][PoolNext]_vars

-----------------------------------------------------------------------------
(* One pass of the exporter, from the call of get_metric_rates to the      *)
(* return of update_prometheus_metrics, over a catalogue with a recording  *)
(* rule's name, a:b, next to a_b: both are legal names of the backend and  *)
(* neither is dropped by the filter.                                       *)

Name_a_colon_b == <<"a", ":", "b">>
Name_a_b == <<"a", "_", "b">>

PublishCatalogs == { <<Name_a_colon_b, Name_a_b, Name_b>> }
PublishThreadCounts == {1, 3}

\* the initial pass of run_exporter has fetched the names and the rules
PublishInit ==
    /\ RetryIdle
    /\ mode = "exporter"
    /\ port = 9966
    /\ timeout = 60
    /\ prometheus_endpoint = "https://prometheus"
    /\ username = "user"
    /\ api_key = "key"
    /\ StatsIdle
    /\ min_dpm \in MinDpms
    /\ thread_count \in PublishThreadCounts
    /\ filtered_metrics = <<>>
    /\ chunk_size = 0
    /\ metric_chunks = <<>>
    /\ cpc = "idle"
    /\ mainPc = "initial"
    /\ exitCode = -1
    /\ shutdown_event = FALSE
    /\ http_server = TRUE
    /\ updPc = "notstarted"
    /\ cycles = 0
    /\ owner = "main"
    /\ ppc = "rates"
    /\ rb_attempt = 0
    /\ rb_budget = InitialRetries
    /\ rb_delay = PassRetryDelay
    /\ passResult = "unset"
    /\ main_names = Unset
    /\ main_aggs = Unset
    /\ metric_names \in { NamesJson(c) : c \in PublishCatalogs }
    /\ metric_aggregations \in RulesAnswers
    /\ PoolIdle
    /\ dpm_data = <<>>
    /\ processing_times = <<>>
    /\ filtered_dpm = <<>>
    /\ total_metrics = 0
    /\ upos = 0
    /\ dpm_metric = EmptyFunction
    /\ metrics_processed = 0
    /\ last_update = 0
    /\ report = None
    /\ published = ZeroSnapshot
    /\ scrape = "none"
    /\ lastGood = EmptyFunction
    /\ queried = {}
    /\ failed = {}
    /\ cycleStart = ZeroSnapshot
    /\ cycleCatalogOk = FALSE
    /\ cycleQueries = 0
    /\ requestAfterSignal = FALSE

PublishNext ==
    \/ SubmitChunks
    \/ \E c \in 1..Len(chunkStatus) : StartChunk(c)
    \/ \E c \in 1..Len(chunkStatus) : \E o \in QueryOutcomes : QueryMetric(c, o)
    \/ AggregateForExporter
    \/ UpdateClear
    \/ UpdateLabel
    \/ UpdateProcessed
    \/ UpdateLastUpdate

SpecPublish == PublishInit /\ [][PublishNext]_vars

-----------------------------------------------------------------------------
(* The end of get_metric_rates (dpm-finder.py, lines 266-378): the         *)
(* statistics of a pass, their logging, and the output of the exporter     *)
(* and of each one-shot format.  processing_times holds the durations      *)
(* themselves here, in seconds; time.time() may return the same value      *)
(* twice, on a coarse clock or when the clock is set back, and total_time  *)
(* is then 0.                                                              *)

OutputFormats == {"csv", "json", "prom", "text"}

\* total_time as the two readings of the clock can give it
Durations == {0, 1, 2}

\* the durations of the rate queries
SampleTimes == {1, 3}

RECURSIVE Sum(_)
Sum(times) == IF times = <<>> THEN 0 ELSE Head(times) + Sum(Tail(times))

\* a / b in tenths; Python raises ZeroDivisionError for b = 0
Quotient(a, b) == (a * 10) \div b

\* "sum(processing_times) / len(processing_times) if processing_times else 0"
AvgMetricTime(times) == IF times = <<>> THEN 0 ELSE Quotient(Sum(times), Len(times))

\* "len(filtered_metrics)/total_time if total_time > 0 else 0"
ExporterRate(n, t) == IF t > 0 THEN Quotient(n, t) ELSE 0

\* the one-shot formats whose output has len(filtered_metrics)/total_time:
\* json (line 323), prom (line 350) and text (line 371); csv has no statistics
FormatDivides(format) == format \in {"json", "prom", "text"}

StatsInit ==
    /\ RetryAtRest
    /\ quiet \in BOOLEAN
    /\ thread_count = 1
    /\ \E n \in 0..2 : filtered_metrics = CatalogOfSize(n)
    /\ chunk_size = 0
    /\ metric_chunks = <<>>
    /\ cpc = "idle"
    /\ ExporterAtRest
    /\ processing_times \in [1..Len(filtered_metrics) -> SampleTimes]
    /\ exporter_mode \in BOOLEAN
    /\ output_format \in (IF exporter_mode THEN {"csv"} ELSE OutputFormats)
    /\ total_time = 0
    /\ avg_metric_time = 0
    /\ processing_rate = 0
    /\ statsPc = "drained"

unmeasuredVars == <<retryVars, chunkVars, procVars, configVars, passVars, poolVars,
                    aggVars, gaugeVars, report, histVars>>

\* lines 266-267: total_time and avg_metric_time
MeasureTimes ==
    /\ statsPc = "drained"
    /\ \E t \in Durations : total_time' = t
    /\ avg_metric_time' = AvgMetricTime(processing_times)
    /\ statsPc' = "log"
    /\ UNCHANGED <<exporter_mode, output_format, processing_rate>>
    /\ UNCHANGED unmeasuredVars

\* lines 269-275: "if not quiet:" the timing statistics are logged, the rate
\* as len(filtered_metrics)/total_time
LogStatistics ==
    /\ statsPc = "log"
    /\ statsPc' = IF ~quiet /\ total_time = 0 THEN "raised" ELSE "output"
    /\ UNCHANGED <<exporter_mode, output_format, total_time, avg_metric_time,
                   processing_rate>>
    /\ UNCHANGED unmeasuredVars

\* lines 285-297: performance_data and update_prometheus_metrics; True is
\* returned
ExporterOutput ==
    /\ statsPc = "output"
    /\ exporter_mode
    /\ processing_rate' = ExporterRate(Len(filtered_metrics), total_time)
    /\ statsPc' = "returned"
    /\ UNCHANGED <<exporter_mode, output_format, total_time, avg_metric_time>>
    /\ UNCHANGED unmeasuredVars

\* lines 299-378: the file of the one-shot format is written; True is
\* returned unless the division raised
OneShotOutput ==
    /\ statsPc = "output"
    /\ ~exporter_mode
    /\ IF FormatDivides(output_format)
       THEN IF total_time = 0
            THEN statsPc' = "raised" /\ UNCHANGED processing_rate
            ELSE /\ statsPc' = "returned"
                 /\ processing_rate' = Quotient(Len(filtered_metrics), total_time)
       ELSE statsPc' = "returned" /\ UNCHANGED processing_rate
    /\ UNCHANGED <<exporter_mode, output_format, total_time, avg_metric_time>>
    /\ UNCHANGED unmeasuredVars

StatsNext == MeasureTimes \/ LogStatistics \/ ExporterOutput \/ OneShotOutput

SpecStats == StatsInit /\ [][StatsNext]_vars

-----------------------------------------------------------------------------
(* Properties of the request executor, checked under SpecRetry. *)

RECURSIVE Pow2(_)
Pow2(k) == IF k = 0 THEN 1 ELSE 2 * Pow2(k - 1)

\* the errors of a request: a transport error, a timeout, an error status
RequestErrors == RequestExceptions \cup {"ConnectionResetError"}

\* the call is over and no attempt succeeded
EveryAttemptFailed ==
    /\ rpc \in {"returned", "raised", "caller_done"}
    /\ max_retries >= 1
    /\ response # "Response"

\* every failure was a request error
OnlyRequestErrors == \A k \in 1..Len(errors) : errors[k] \in RequestErrors

\* max_retries attempts, max_retries - 1 sleeps of d, 2d, 4d, ..., and the
\* last exception returned as a value
FullSchedule ==
    /\ Len(errors) = max_retries
    /\ Len(sleeps) = max_retries - 1
    /\ \A k \in 1..Len(sleeps) : sleeps[k] = initial_delay * Pow2(k - 1)
    /\ response = errors[Len(errors)]

\* C1 as stated: in both files, a request failing on every attempt is tried
\* exactly max_retries times with max_retries - 1 sleeps of d*2^(k-1), and
\* ends in a terminal failure
C1_ScheduleEveryVariant ==
    (EveryAttemptFailed /\ OnlyRequestErrors) => FullSchedule

\* every failure is one that the variant's retrying except clause catches
OnlyRetriedErrors ==
    \A k \in 1..Len(errors) : ExceptClause(variant, errors[k]) = "retry"

\* C1 amended: the schedule of C1 holds when every failure is an error the
\* variant retries: any Exception in dpm-finder.py, ConnectionResetError
\* alone in main.py
C1_ScheduleOfRetriedErrors ==
    (EveryAttemptFailed /\ OnlyRetriedErrors) => FullSchedule

\* C1 witness: max_retries = 3, d = 2 in dpm-finder.py: 3 failed attempts,
\* sleeps of 2 then 4, the last error returned
C1_Witness ==
    /\ variant = "dpm-finder"
    /\ rpc = "returned"
    /\ max_retries = 3
    /\ initial_delay = 2
    /\ errors = <<"HTTPError", "Timeout", "ConnectionError">>
    /\ sleeps = <<2, 4>>
    /\ response = "ConnectionError"

\* C2: with max_retries >= 1 the executor of dpm-finder.py never raises; it
\* returns a response or the last exception, never None, and on an exception
\* get_metric_json returns None and process_metric_chunk records only a
\* timing sample
C2_NeverRaises ==
    (variant = "dpm-finder" /\ max_retries >= 1) =>
        /\ rpc # "raised"
        /\ callerResult # "raised"
        /\ rpc \in {"returned", "caller_done"} =>
              (response = "Response" \/ IsException(response))
        /\ (rpc = "caller_done" /\ IsException(response)) =>
              callerResult = (IF caller = "get_metric_json" THEN "None" ELSE "timing")

\* C2 witness: a request that times out on every attempt, and an exception
\* that is no requests exception, end as a per-item failure
C2_Witness ==
    /\ variant = "dpm-finder"
    /\ rpc = "caller_done"
    /\ caller = "process_metric_chunk"
    /\ max_retries = 3
    /\ errors = <<"Timeout", "Timeout", "ValueError">>
    /\ response = "ValueError"
    /\ callerResult = "timing"

\* an attempt of make_request_with_retry has succeeded
Succeeded == response = "Response"

\* C26: when the k-th attempt is the first to succeed the executor has
\* returned the response after k attempts, k - 1 of them failed and each
\* followed by one sleep, with k <= max_retries; and no attempt and no sleep
\* follows the success
C26_ReturnsAtFirstSuccess ==
    /\ [](Succeeded =>
            /\ rpc \in {"returned", "caller_done"}
            /\ Len(errors) = attempt
            /\ Len(sleeps) = attempt
            /\ attempt + 1 <= max_retries)
    /\ [][Succeeded => UNCHANGED <<attempt, errors, sleeps, response, retry_delay>>]_vars

\* C26 witness: the third attempt succeeded after two failures and two
\* sleeps, and the response went to the caller
C26_Witness ==
    /\ Succeeded
    /\ rpc = "caller_done"
    /\ max_retries = 4
    /\ attempt = 2
    /\ errors = <<"Timeout", "ConnectionError">>
    /\ sleeps = <<1, 2>>

\* C39: in main.py every error but the last of a call is a
\* ConnectionResetError, and every sleep follows one; a request exception
\* (error status, timeout, connection error) ends the call at the attempt
\* that raised it, as the value returned; raised by the first attempt, it is
\* returned after that one attempt and no sleep
C39_MainRetriesResetOnly ==
    variant = "main" =>
        /\ \A k \in 1..Len(errors) :
              /\ k < Len(errors) => errors[k] = "ConnectionResetError"
              /\ errors[k] \in RequestExceptions =>
                    /\ k = Len(errors)
                    /\ rpc \in {"returned", "caller_done"}
                    /\ response = errors[k]
                    /\ attempt = k - 1
                    /\ Len(sleeps) = k - 1
        /\ Len(sleeps) <= Len(errors)
        /\ (errors # <<>> /\ errors[1] \in RequestExceptions) =>
              (Len(errors) = 1 /\ sleeps = <<>> /\ attempt = 0)

\* C39 witness: with three attempts allowed, the first one timed out and the
\* timeout was returned without a sleep
C39_Witness ==
    /\ variant = "main"
    /\ max_retries = 3
    /\ errors = <<"Timeout">>
    /\ rpc = "returned"
    /\ response = "Timeout"
    /\ sleeps = <<>>

-----------------------------------------------------------------------------
(* Properties of both executors, checked under SpecExecutors. *)

\* the executor has returned or raised
ExecutorOver == rpc \in {"returned", "raised", "backoff_returned"}

\* the last attempt succeeded
LastAttemptOk == response \in {"Response"} \cup OperationValues

\* an attempt has failed and its sleep, or the return, is what comes next
FailureUnanswered ==
    \/ rpc \in {"sleep", "backoff_sleep"}
    \/ ExecutorOver /\ ~LastAttemptOk /\ max_retries > 0

\* the result of a run that ended without a successful attempt
ResultOfFailure ==
    IF max_retries = 0 \/ rpc = "backoff_returned" THEN "None"
    ELSE IF rpc = "raised" THEN "unset"
    ELSE errors[Len(errors)]

\* C24: the attempts made, the sleeps taken and the result are those the
\* parameters other than quiet and the outcomes of the attempts determine,
\* whatever quiet is: two runs on the same outcomes that differ in quiet
\* alone agree in all three; a quiet run logs nothing
C24_QuietChangesNoBehaviour ==
    /\ Len(errors) = attempt + (IF FailureUnanswered THEN 1 ELSE 0)
    /\ sleeps = [k \in 1..attempt |-> initial_delay * Pow2(k - 1)]
    /\ retry_delay = initial_delay * Pow2(attempt)
    /\ rpc \in {"sleep", "backoff_sleep"} => attempt < max_retries - 1
    /\ (ExecutorOver /\ ~LastAttemptOk) =>
          /\ response = ResultOfFailure
          /\ variant = "dpm-finder" => Len(errors) = max_retries
    /\ quiet => logged = 0

\* C24 witness: a quiet run of retry_with_backoff whose operation raised
\* twice and then returned: three attempts, sleeps of 2 and 4, nothing logged
C24_Witness ==
    /\ quiet
    /\ rpc = "backoff_returned"
    /\ initial_delay = 2
    /\ Len(errors) = 2
    /\ sleeps = <<2, 4>>
    /\ response = "True"
    /\ logged = 0

-----------------------------------------------------------------------------
(* Properties of the work partitioner, checked under SpecChunk. *)

CeilDiv(a, b) == (a + b - 1) \div b

RECURSIVE Flatten(_)
Flatten(ss) == IF ss = <<>> THEN <<>> ELSE Head(ss) \o Flatten(Tail(ss))

RECURSIVE SumLen(_)
SumLen(ss) == IF ss = <<>> THEN 0 ELSE Len(Head(ss)) + SumLen(Tail(ss))

\* C3: the chunk lengths sum to N, every chunk has between 1 and ceil(N/W)
\* names, and the chunks concatenated in order are the filtered catalogue
C3_ChunksPartitionCatalog ==
    cpc = "chunked" =>
        /\ SumLen(metric_chunks) = Len(filtered_metrics)
        /\ \A k \in 1..Len(metric_chunks) :
              /\ Len(metric_chunks[k]) >= 1
              /\ Len(metric_chunks[k]) <= CeilDiv(Len(filtered_metrics), thread_count)
        /\ Flatten(metric_chunks) = filtered_metrics

\* C3 witness: 5 names and 2 workers give chunks of 2, 2 and 1
C3_Witness ==
    /\ cpc = "chunked"
    /\ thread_count = 2
    /\ Len(filtered_metrics) = 5
    /\ Len(metric_chunks) = 3
    /\ Len(metric_chunks[3]) = 1

\* C4 as stated: the chunk size is max(1, ceil(N/W)) and there are at most W
\* chunks
C4_CeilSizeAtMostWChunks ==
    cpc = "chunked" =>
        /\ chunk_size = Max(1, CeilDiv(Len(filtered_metrics), thread_count))
        /\ Len(metric_chunks) <= thread_count

\* C4 amended: the chunk size is max(1, floor(N/W)); there are
\* ceil(N / chunk size) chunks, more than W when N > W and W does not divide
\* N, and never more than 2W - 1
C4_FloorSizeChunkCount ==
    cpc = "chunked" =>
        LET n == Len(filtered_metrics)
            w == thread_count
        IN  /\ chunk_size = Max(1, n \div w)
            /\ Len(metric_chunks) = CeilDiv(n, chunk_size)
            /\ (n > w /\ n % w # 0) => Len(metric_chunks) > w
            /\ (n <= w \/ n % w = 0) => Len(metric_chunks) <= w
            /\ Len(metric_chunks) <= 2 * w - 1

\* C4 witness: 7 names and 4 workers: chunk size 1 and 7 = 2*4 - 1 chunks
C4_Witness ==
    /\ cpc = "chunked"
    /\ thread_count = 4
    /\ Len(filtered_metrics) = 7
    /\ chunk_size = 1
    /\ Len(metric_chunks) = 7

-----------------------------------------------------------------------------
(* Properties of the exporter and of a one-shot run, checked under Spec. *)

\* C5: every rate in the published gauges, and every rate in a one-shot
\* report, is strictly greater than the configured min_dpm; a rate equal to
\* or below min_dpm never appears
C5_PublishedAboveThreshold ==
    /\ \A m \in DOMAIN dpm_metric : dpm_metric[m] > min_dpm
    /\ report # None =>
         \A k \in 1..Len(report.lines) : Float(report.lines[k][2]) > min_dpm

\* C5 witness: a pass measured b at 0.5 and d at 5.0 with min_dpm 1.0, and
\* the gauges it has written hold d alone
C5_Witness ==
    /\ ppc = "update"
    /\ upos = Len(filtered_dpm) + 1
    /\ Keys(dpm_data) = {Name_b, Name_d}
    /\ dpm_data[Lookup(dpm_data, Name_b)][2] = "0.5"
    /\ dpm_data[Lookup(dpm_data, Name_d)][2] = "5.0"
    /\ DOMAIN dpm_metric = {Name_d}
    /\ dpm_metric[Name_d] = 50

\* C6: a read of the exposition endpoint returns the whole snapshot of the
\* previous pass or the whole snapshot of the new pass, never a mixture
C6_ReadsSeeWholeSnapshots == scrape # "torn"

\* C7: when every catalogue fetch of an updater cycle failed, then once the
\* cycle is over the gauges are what they were when it began, and the cycle
\* issued no rate query
C7_CatalogFailureLeavesSnapshot ==
    (updPc = "wait" /\ ~cycleCatalogOk) =>
        /\ Gauges = cycleStart
        /\ cycleQueries = 0

\* C7 witness: the initial collection published d, and an updater cycle
\* whose three attempts all failed to fetch the names has ended
C7_Witness ==
    /\ updPc = "wait"
    /\ ~cycleCatalogOk
    /\ passResult = "None"
    /\ rb_attempt = PeriodicRetries - 1
    /\ Name_d \in DOMAIN cycleStart.rates
    /\ Gauges = cycleStart

\* C8: after an updater cycle that failed, by its catalogue fetch or by every
\* rate query ending in a terminal failure, every name and rate published by
\* the last pass that did not fail is still in the gauges
C8_FailedRefreshKeepsData ==
    (updPc = "wait" /\ PassFailed) =>
        \A m \in DOMAIN lastGood :
            m \in DOMAIN dpm_metric /\ dpm_metric[m] = lastGood[m]

\* C9: the updater thread and the workers of its pool send no request once
\* the shutdown event is set
C9_NoRequestAfterSignal == ~requestAfterSignal

\* run_exporter starts no timer and joins no thread: there is no grace period
\* that could elapse
GracePeriodElapsed == FALSE

\* C10: the process of the exporter is not stopped before the updater thread
\* has seen the shutdown event and left its loop, unless a grace period has
\* elapsed
C10_StoppedAfterUpdaterLeft ==
    (mainPc = "stopped" /\ updPc # "notstarted") =>
        (updPc = "stopped" \/ GracePeriodElapsed)

\* C11: with the shutdown event set, an updater blocked in its wait leaves the
\* wait only to leave its loop, never towards another collection, and the
\* process is eventually stopped
C11_ShutdownReachesStopped ==
    /\ [][(updPc = "wait" /\ shutdown_event) => updPc' \in {"wait", "stopped", "killed"}]_vars
    /\ shutdown_event ~> (mainPc = "stopped")

\* C11 witness: the updater has run a cycle and left its loop, the event is
\* set and the process is stopped
C11_Witness ==
    /\ shutdown_event
    /\ cycles >= 1
    /\ updPc = "stopped"
    /\ mainPc = "stopped"

C13_OneShotWithoutNamesFails ==
    (mode = "oneshot" /\ mainPc = "stopped" /\ main_names = None) =>
        /\ queried = {}
        /\ exitCode # 0

\* C14: a pass that has the names but whose rules fetch returned None issues
\* no rate query; a one-shot run then exits with a status other than 0 and an
\* updater cycle ends with the gauges as they were before it
C14_NoQueryWithoutRules ==
    (metric_aggregations = None /\ metric_names \notin {None, Unset}) =>
        /\ queried = {}
        /\ (mode = "oneshot" /\ mainPc = "stopped") => exitCode # 0
        /\ updPc = "wait" => Gauges = cycleStart

\* C16: when the bind of the endpoint has failed the process has exited with
\* a status other than 0, no collection pass was begun by run_exporter and
\* the updater thread was not started
C16_BindFailureIsFatal ==
    (mode = "exporter" /\ mainPc = "stopped" /\ ~http_server /\ ~shutdown_event
       /\ ~ArgsRejected) =>
        /\ exitCode # 0
        /\ updPc = "notstarted"
        /\ owner = "none"
        /\ rb_budget = 0
        /\ metric_names = Unset
        /\ queried = {}
        /\ Gauges = ZeroSnapshot

\* C16 witness: the exporter has stopped with status 1 at the bind, no signal
\* received, its arguments valid
C16_Witness ==
    /\ mode = "exporter"
    /\ ~ArgsRejected
    /\ mainPc = "stopped"
    /\ exitCode = 1
    /\ ~http_server
    /\ ~shutdown_event

\* C17: in exporter mode a collection pass, its names and rules requests
\* included, runs only with the endpoint live; the initial pass has
\* InitialRetries attempts, every pass of the updater PeriodicRetries, and
\* the first number is the larger
C17_InitialPassAfterBind ==
    mode = "exporter" =>
        /\ (owner # "none" \/ metric_names # Unset \/ updPc # "notstarted") => http_server
        /\ owner = "main" => rb_budget = InitialRetries
        /\ owner = "updater" => rb_budget = PeriodicRetries
        /\ InitialRetries > PeriodicRetries

\* C17 witness: with the endpoint live, the initial collection is in an
\* attempt that no pass of the updater would be given and has requested the
\* names
C17_Witness ==
    /\ mode = "exporter"
    /\ http_server
    /\ updPc = "notstarted"
    /\ owner = "main"
    /\ ppc = "aggs"
    /\ rb_attempt = PeriodicRetries

\* C18: once bound, the endpoint answers a read in every state of the live
\* process; a process with the endpoint bound stops only on a signal; and
\* when the initial collection has used up its retries the process has not
\* exited, the gauges are zero and empty, and the updater is started next
C18_ServesWithoutCollection ==
    /\ (http_server /\ ProcessAlive) => ENABLED Scrape
    /\ (http_server /\ mainPc = "stopped") => shutdown_event
    /\ (mainPc = "initial" /\ ppc = "returned" /\ passResult = "None") =>
          /\ exitCode = -1
          /\ Gauges = ZeroSnapshot
          /\ ENABLED StartUpdater

\* C18 witness: the initial collection failed on all its attempts, the
\* updater was started all the same, and a read of the endpoint was served
\* the empty snapshot
C18_Witness ==
    /\ mainPc = "loop"
    /\ updPc = "loop_test"
    /\ cycles = 0
    /\ passResult = "None"
    /\ Gauges = ZeroSnapshot
    /\ scrape = "whole"

\* a name the catalogue filter is to drop whatever the rules say
ExcludedByName(m) ==
    \/ \E suffix \in {Suffix_count, Suffix_bucket, Suffix_sum} : EndsWith(m, suffix)
    \/ StartsWith(m, Prefix_grafana)

\* the names a pass has touched: those it queried, those of its merged
\* results, and those of the gauges
TouchedNames == queried \cup Keys(dpm_data) \cup DOMAIN dpm_metric

\* C19: no name with an excluded suffix or the excluded prefix is queried,
\* merged or published, and no name queried in a pass is named by the
\* aggregation rules that pass fetched
C19_ExcludedNeverQueried ==
    /\ \A m \in TouchedNames : ~ExcludedByName(m)
    /\ metric_aggregations \notin {None, Unset} =>
          queried \cap AggregatedMetrics(metric_aggregations) = {}

\* the same for the executor of dpm-finder.py alone
C19_HoldsInDpmFinder == variant = "dpm-finder" => C19_ExcludedNeverQueried

\* the run of the end-to-end example: catalogue [a_count, b, c_bucket, d], a
\* rule naming d, 10 workers, threshold 1.0, exporter mode
ExampleRun ==
    /\ mode = "exporter"
    /\ thread_count = 10
    /\ min_dpm = 10
    /\ metric_names = NamesJson(<<Name_a_count, Name_b, Name_c_bucket, Name_d>>)
    /\ metric_aggregations = RulesJson(<<[metric |-> Name_d]>>)

\* b's rate query has returned 5.0 and the results are merged
ExampleMeasured == ExampleRun /\ ppc = "update" /\ dpm_data = <<<<Name_b, "5.0">>>>

\* the shape of the example's pass: the filtered catalogue is [b], in one
\* chunk of size 1, and one rate query is issued, for b
ExamplePassShape ==
    /\ (ExampleRun /\ ppc = "pool") =>
          /\ filtered_metrics = <<Name_b>>
          /\ chunk_size = 1
          /\ metric_chunks = <<<<Name_b>>>>
          /\ DOMAIN chunkPos = {1}
          /\ queried = (IF chunkPos[1] = 1 THEN {Name_b} ELSE {})
    /\ (ExampleRun /\ ppc = "update") =>
          /\ queried = {Name_b}
          /\ processing_times = <<Name_b>>
          /\ total_metrics = 1
    /\ (ExampleMeasured /\ upos = Len(filtered_dpm) + 2) =>
          /\ dpm_metric = (Name_b :> 50)
          /\ metrics_processed = 1

\* the example's pass returns with the snapshot {b: 5.0}, items processed 1
ExamplePublishes ==
    (ExampleMeasured /\ ppc' = "returned") =>
        /\ passResult' = "True"
        /\ published'.rates = (Name_b :> 50)
        /\ published'.processed = 1
        /\ Gauges' = published'

\* C20: with catalogue [a_count, b, c_bucket, d], a rule naming d, 10
\* workers, threshold 1 and b measured at 5.0, the pass filters the catalogue
\* to [b], makes one chunk of size 1, issues one rate query, and publishes
\* the snapshot {b: 5.0} with items processed = 1
C20_EndToEndExample == [](ExamplePassShape) /\ [][ExamplePublishes]_vars

\* C20 witness: the example's pass has returned True after its single query
\* for b, and the gauges hold the published snapshot {b: 5.0}, 1 item
C20_Witness ==
    /\ ExampleRun
    /\ ppc = "returned"
    /\ passResult = "True"
    /\ queried = {Name_b}
    /\ failed = {}
    /\ published.rates = (Name_b :> 50)
    /\ published.processed = 1
    /\ Gauges = published

\* the result set of a pass: filtered_dpm, or the lines of the report
ResultSet ==
    IF mode = "exporter" THEN filtered_dpm
    ELSE IF report = None THEN <<>> ELSE report.lines

\* the place of a name in the catalogue the pass fetched
CatalogIndex(m) ==
    CHOOSE k \in 1..Len(metric_names.data) : metric_names.data[k] = m

\* the result set is in descending order of rate
ResultDescending ==
    \A i, j \in 1..Len(ResultSet) :
        i < j => Float(ResultSet[i][2]) >= Float(ResultSet[j][2])

\* names of equal rate are in the order of the catalogue
TiesInCatalogOrder ==
    \A i, j \in 1..Len(ResultSet) :
        (i < j /\ Float(ResultSet[i][2]) = Float(ResultSet[j][2])) =>
            CatalogIndex(ResultSet[i][1]) < CatalogIndex(ResultSet[j][1])

\* C21: the result set is ordered by rate descending and names of equal rate
\* are in catalogue order, in whatever order the chunks completed
C21_SortedTiesInCatalogOrder ==
    ResultSet # <<>> => ResultDescending /\ TiesInCatalogOrder

\* the ordering by rate alone
C21_DescendingHolds == ResultDescending

\* how often a name occurs in a sequence
Count(seq, m) == Cardinality({ k \in 1..Len(seq) : seq[k] = m })

\* the pool has been left and the queue drained into dpm_data
PassMerged ==
    \/ ppc = "update"
    \/ mode = "oneshot" /\ ppc = "returned" /\ passResult = "True"

\* C22: a worker has queried the names of its chunk up to its position, each
\* once, and ends only behind the last name; when the results are merged
\* every name of the filtered catalogue was queried exactly once, and a name
\* whose query failed is not among the results
C22_ItemFailureAbortsNothing ==
    /\ ppc = "pool" =>
          \A c \in 1..Len(chunkStatus) :
              /\ chunk_times[c] = SubSeq(metric_chunks[c], 1, chunkPos[c])
              /\ chunkStatus[c] = "done" <=> chunkPos[c] = Len(metric_chunks[c])
    /\ PassMerged =>
          /\ \A m \in Range(filtered_metrics) : Count(processing_times, m) = 1
          /\ Len(processing_times) = Len(filtered_metrics)
          /\ queried = Range(filtered_metrics)
          /\ Keys(dpm_data) \subseteq queried \ failed

\* C22 witness: one worker had the chunk [b, d]; the query for b ended in a
\* terminal failure, d was queried after it and is in the merged results
C22_Witness ==
    /\ PassMerged
    /\ metric_chunks = <<<<Name_b, Name_d>>>>
    /\ processing_times = <<Name_b, Name_d>>
    /\ failed = {Name_b}
    /\ Keys(dpm_data) = {Name_d}

\* the exporter is shutting down or has stopped
ShuttingDown == mainPc \in {"unwinding", "finalizing", "stopped"}

\* C25: once set the shutdown flag is never cleared; from shutting down the
\* main thread never returns to serving and no cycle of the updater begins;
\* and the step of a signal handled while shutting down leaves the flag set
\* and starts no pass and no attempt of one
C25_SignalWhileShuttingDown ==
    /\ [][shutdown_event => shutdown_event']_vars
    /\ [][ShuttingDown => (ShuttingDown' /\ cycles' = cycles)]_vars
    /\ [][SignalAgain =>
            /\ shutdown_event'
            /\ ShuttingDown'
            /\ UNCHANGED <<cycles, owner, rb_attempt, metric_names, queried>>
            /\ ppc' = ppc
            /\ updPc' \in {updPc, "killed"}]_vars

\* C25 witness: a second signal has ended the main thread's wait for the
\* workers of its initial pass; the exporter is still shutting down
C25_Witness ==
    /\ shutdown_event
    /\ mainPc = "finalizing"
    /\ owner = "main"
    /\ ~AllChunksDone

\* C31: every cycle of the updater begins right after an interval wait that
\* timed out.  The loop test is reached from the start of the thread or from
\* an elapsed wait only, and a wait is reached only at the end of a cycle: a
\* cycle that begins with no cycle behind it begins with no wait behind it
C31_PassAfterElapsedWait == [][UpdaterBeginsCycle => cycles >= 1]_vars

\* C32: a wake of the updater triggers one call of retry_with_backoff, one
\* pass with its retry budget: a pass of the updater begins at the loop test
\* only and stays within its budget of attempts; when it is over, whatever
\* its result, the updater is in its wait and owns no pass; and the wait is
\* left towards the loop test only by timing out with the event clear
C32_OnePassPerWake ==
    /\ [](ByUpdater => (updPc \in {"cycle", "killed"} /\ rb_attempt < rb_budget))
    /\ [][(~ByUpdater /\ ByUpdater') => (updPc = "loop_test" /\ rb_attempt' = 0)]_vars
    /\ [][(updPc = "cycle" /\ updPc' # "cycle") =>
             \/ updPc' = "killed"
             \/ updPc' = "wait" /\ ~ByUpdater' /\ ppc' = "idle"]_vars
    /\ [][(updPc = "wait" /\ updPc' # "wait") =>
             \/ updPc' \in {"stopped", "killed"}
             \/ updPc' = "loop_test" /\ ~shutdown_event]_vars

\* C32 witness: the pass of a cycle has failed on its last attempt and the
\* updater waits for the interval, with nothing of a pass running
C32_Witness ==
    /\ updPc = "wait"
    /\ passResult = "None"
    /\ rb_attempt = rb_budget - 1
    /\ owner = "none"
    /\ ~shutdown_event
    /\ mainPc = "loop"

\* C33: no two passes run or write the gauges at once.  The updater thread is
\* started only when the initial pass has returned, with True or with None
\* after the last attempt of its budget, and no worker of it is left running;
\* once the updater is started the main thread runs no pass; a cycle of the
\* updater begins with no pass and no worker running; and the gauges change
\* only in a step of the one running pass, inside update_prometheus_metrics,
\* when the workers of its pool have all returned
C33_PassesNeverOverlap ==
    /\ [](updPc # "notstarted" => (mode = "exporter" /\ owner # "main"))
    /\ [](ByUpdater => updPc \in {"cycle", "killed"})
    /\ [][(updPc = "notstarted" /\ updPc' # "notstarted") =>
             /\ owner = "main" /\ ppc = "returned"
             /\ \/ passResult = "True"
                \/ passResult = "None" /\ rb_attempt = rb_budget - 1
             /\ RunningChunks = {}]_vars
    /\ [][UpdaterBeginsCycle => (owner = "none" /\ ppc = "idle" /\ RunningChunks = {})]_vars
    /\ [][Gauges' # Gauges => (PassRuns /\ ppc = "update" /\ RunningChunks = {})]_vars

\* C33 witness: the initial pass has published its snapshot and the pass of
\* the updater's cycle is writing the gauges, the main thread in its loop
C33_Witness ==
    /\ mainPc = "loop"
    /\ ByUpdater
    /\ ppc = "update"
    /\ upos >= 2
    /\ published.updated = 1

\* C34: in exporter mode every attempt of a pass, the initial one, that of a
\* cycle and every one retry_with_backoff makes again, begins with neither
\* local bound, fetches the names and then the rules into them, and
\* partitions the filter of exactly these two answers; what main fetched
\* before run_exporter is held by no pass
C34_EveryPassFetchesAgain ==
    /\ [](mode = "exporter" /\ owner # "none" => main_names = Unset /\ main_aggs = Unset)
    /\ [](mode = "exporter" /\ ppc = "rates" =>
             metric_names \in NamesAnswers /\ metric_aggregations \in RulesAnswers)
    /\ [][(mode = "exporter" /\ ppc # "names" /\ ppc' = "names") =>
             metric_names' = Unset /\ metric_aggregations' = Unset]_vars
    /\ [][FetchNames => (metric_names = Unset /\ metric_names' \in NamesAnswers)]_vars
    /\ [][FetchAggs =>
             /\ metric_aggregations = Unset
             /\ metric_aggregations' \in RulesAnswers
             /\ metric_names' = metric_names]_vars
    /\ [][(mode = "exporter" /\ SubmitChunks) =>
             /\ metric_names \in NamesAnswers \ {None}
             /\ filtered_metrics' =
                    FilterCatalog(variant, metric_names, metric_aggregations)
             /\ metric_chunks' = MetricChunks(filtered_metrics', chunk_size')]_vars

\* C34 witness: the second attempt of a cycle of the updater has fetched the
\* names and a rule that excludes d, and its pool works on b alone
C34_Witness ==
    /\ ByUpdater
    /\ rb_attempt = 1
    /\ ppc = "pool"
    /\ variant = "dpm-finder"
    /\ metric_aggregations = RulesJson(<<[metric |-> Name_d]>>)
    /\ filtered_metrics = <<Name_b>>

\* a pass is in its pool with a filtered catalogue that is empty
EmptyPass == PassRuns /\ ppc = "pool" /\ filtered_metrics = <<>>

UpdaterRequest ==
    /\ ByUpdater
    /\ \/ ppc = "names" /\ ppc' = "aggs"
       \/ ppc = "aggs" /\ ppc' = "rates"
       \/ cycleQueries' # cycleQueries

\* C38: the shutdown event is never cleared once it is set; with the event
\* set no cycle of the updater begins; and a request the updater or its pool
\* sends with the event set is sent inside the cycle that was running, begun
\* with the event clear, its attempts within the budget of that cycle
C38_NoNewCycleAfterFlag ==
    /\ [][shutdown_event => shutdown_event']_vars
    /\ [][shutdown_event =>
             /\ cycles' = cycles
             /\ updPc # "cycle" => updPc' # "cycle"
             /\ ~ByUpdater => ~ByUpdater']_vars
    /\ [][(shutdown_event /\ UpdaterRequest) =>
             /\ updPc = "cycle" /\ updPc' = "cycle"
             /\ rb_attempt < rb_budget]_vars

\* C38 witness: the event was set during a cycle of the updater, whose
\* second attempt has since fetched the names
C38_Witness ==
    /\ shutdown_event
    /\ ByUpdater
    /\ updPc = "cycle"
    /\ rb_attempt = 1
    /\ ppc = "aggs"
    /\ requestAfterSignal

-----------------------------------------------------------------------------
(* Properties of the pool of a pass, checked under SpecPool. *)

\* the pool is left in this step
PoolLeft == ppc = "pool" /\ ppc' # "pool"

\* the results of every chunk whose worker returned are in the merged data
DoneChunksMerged ==
    \A c \in 1..Len(chunkStatus) :
        chunkStatus[c] = "done" =>
            \A k \in 1..Len(chunk_results[c]) : chunk_results[c][k] \in Range(dpm_data')

\* C23: the pool is left, and the queue drained, only when every chunk has
\* completed or raised; an exception of one worker does not end the pass,
\* and the results of every chunk that completed are merged
C23_AggregationAfterAllChunks ==
    [][PoolLeft =>
         /\ \A c \in 1..Len(chunkStatus) : chunkStatus[c] \notin {"queued", "running"}
         /\ passResult' = "True"
         /\ DoneChunksMerged]_vars

\* C23 witness: of the chunks [b], [d], [f] the worker of [d] raised before
\* its query; the pass returned with b and f merged
C23_Witness ==
    /\ PassMerged
    /\ metric_chunks = <<<<Name_b>>, <<Name_d>>, <<Name_f>>>>
    /\ queried = {Name_b, Name_f}
    /\ Keys(dpm_data) = {Name_b, Name_f}

\* the step of one query records one timing sample, and a result exactly
\* when the response held a usable value
QueryRecords(c, o) ==
    /\ chunk_times'[c] = Append(chunk_times[c], NextMetric(c))
    /\ NextMetric(c) \in Keys(chunk_results'[c]) <=> o \in ValueStrings
    /\ \A m \in Keys(chunk_results[c]) : m \in Keys(chunk_results'[c])

\* C27: a worker that has finished holds one timing sample for each name of
\* its chunk, in order, and results only for names of its chunk whose query
\* did not end in a terminal failure; each query adds one timing sample and
\* adds a result exactly when its response held a usable value; and a pass
\* in which no worker raised leaves the pool with as many timing samples as
\* the filtered catalogue has names
C27_OneTimingSamplePerName ==
    /\ [](\A c \in 1..Len(chunkStatus) :
            chunkStatus[c] = "done" =>
                /\ chunk_times[c] = metric_chunks[c]
                /\ Keys(chunk_results[c]) \subseteq Range(metric_chunks[c]) \ failed)
    /\ [][\A c \in 1..Len(chunkStatus) : \A o \in QueryOutcomes :
            QueryMetric(c, o) => QueryRecords(c, o)]_vars
    /\ [][(PoolLeft /\ \A c \in 1..Len(chunkStatus) : chunkStatus[c] = "done") =>
            Len(processing_times') = Len(filtered_metrics)]_vars

\* C27 witness: the worker of the chunk [b, d, f] has finished: b ended in a
\* terminal failure, d gave a value, f gave none; three timing samples and
\* one result
C27_Witness ==
    /\ ppc = "pool"
    /\ metric_chunks = <<<<Name_b, Name_d, Name_f>>>>
    /\ chunkStatus = <<"done">>
    /\ chunk_times[1] = <<Name_b, Name_d, Name_f>>
    /\ failed = {Name_b}
    /\ Keys(chunk_results[1]) = {Name_d}

\* the names of every chunk stand in the order of the catalogue
ChunksInCatalogOrder ==
    \A c \in 1..Len(metric_chunks) : \A i, j \in 1..Len(metric_chunks[c]) :
        i < j => CatalogIndex(metric_chunks[c][i]) < CatalogIndex(metric_chunks[c][j])

\* the queries a worker has made are those of the first names of its chunk,
\* made in that order
QueriedInOrder ==
    \A c \in 1..Len(chunkStatus) :
        /\ chunkPos[c] \in 0..Len(metric_chunks[c])
        /\ chunk_times[c] = SubSeq(metric_chunks[c], 1, chunkPos[c])

\* a step moves a worker by one name at most, and the name it has queried
\* is the one behind the last it had queried
OneNameAtATime ==
    \A c \in 1..Len(chunkStatus) :
        Len(chunkStatus') = Len(chunkStatus) =>
            \/ chunkPos'[c] = chunkPos[c] /\ chunk_times'[c] = chunk_times[c]
            \/ /\ chunkPos'[c] = chunkPos[c] + 1
               /\ chunk_times'[c] = Append(chunk_times[c], metric_chunks[c][chunkPos[c] + 1])
               /\ queried' = queried \cup {metric_chunks[c][chunkPos[c] + 1]}

\* C28: within a chunk the names are queried in catalogue order and one at
\* a time: the query of a name has ended, in a response or in a terminal
\* failure, when that of the next name of the chunk is made
C28_ChunkQueriedInOrder ==
    /\ [](ppc = "pool" => (ChunksInCatalogOrder /\ QueriedInOrder))
    /\ [][ppc = "pool" => OneNameAtATime]_vars

\* C28 witness: the worker of the chunk [b, d, f] has queried b, then d, and
\* has not yet queried f
C28_Witness ==
    /\ ppc = "pool"
    /\ metric_chunks = <<<<Name_b, Name_d, Name_f>>>>
    /\ chunkStatus = <<"running">>
    /\ chunk_times[1] = <<Name_b, Name_d>>
    /\ queried = {Name_b, Name_d}

\* C29: at every instant of a pass at most max(1, thread_count) chunks are
\* being processed, each by a worker with one request at a time, also when
\* there are more chunks than workers
C29_AtMostWorkerCountRunning ==
    /\ thread_count >= 1
    /\ Cardinality(RunningChunks) <= thread_count
    /\ \A c \in RunningChunks : chunkPos[c] < Len(metric_chunks[c])

\* C29 witness: three chunks and two workers: two chunks are being
\* processed and the third waits
C29_Witness ==
    /\ thread_count = 2
    /\ chunkStatus = <<"running", "running", "queued">>

\* the chunks whose worker has returned
DoneChunks == { c \in 1..Len(chunkStatus) : chunkStatus[c] = "done" }

RECURSIVE SumOver(_, _)
SumOver(f, S) ==
    IF S = {} THEN 0
    ELSE LET c == CHOOSE x \in S : TRUE IN Len(f[c]) + SumOver(f, S \ {c})

\* the queue holds one tuple for each chunk whose worker has returned, the
\* results and the timing samples of that chunk
QueueHoldsDoneChunks ==
    /\ Len(results_queue) = Cardinality(DoneChunks)
    /\ Range(results_queue) = { <<chunk_results[c], chunk_times[c]>> : c \in DoneChunks }

\* no name has results in two chunks
ChunkResultsDisjoint ==
    \A c, d \in 1..Len(chunkStatus) :
        c # d => Keys(chunk_results[c]) \cap Keys(chunk_results[d]) = {}

\* the merged data are the results of the chunks that completed, each once
MergedIsUnion ==
    /\ Range(dpm_data') = UNION { Range(chunk_results[c]) : c \in DoneChunks }
    /\ Len(dpm_data') = SumOver(chunk_results, DoneChunks)
    /\ Len(processing_times') = SumOver(chunk_times, DoneChunks)

\* C30: while the pool runs the queue holds one tuple of each chunk that
\* completed and the merged mapping is not written; it is written by the
\* caller alone, in the step that leaves the pool, and is then the union of
\* the results of the chunks that completed, none lost, none counted twice
\* and no name's value overwritten by another chunk's
C30_MergedIsUnionOfChunks ==
    /\ [](ppc = "pool" => (QueueHoldsDoneChunks /\ ChunkResultsDisjoint /\ dpm_data = <<>>))
    /\ [][dpm_data' # dpm_data => PoolLeft]_vars
    /\ [][PoolLeft => MergedIsUnion]_vars

\* C30 witness: three chunks handed over a value each, that of [f] first; the
\* merged mapping holds the three
C30_Witness ==
    /\ PassMerged
    /\ Len(metric_chunks) = 3
    /\ Len(dpm_data) = 3
    /\ dpm_data[1][1] = Name_f
    /\ Keys(dpm_data) = {Name_b, Name_d, Name_f}

\* lines 261-282 as a function of the drained queue and of the threshold
Aggregate(queue, threshold) == FilteredDpm(MergeQueue(queue), threshold)

-----------------------------------------------------------------------------
(* Properties of the statistics of a pass, checked under SpecStats. *)

\* C36: with a total time of 0 get_metric_rates does not raise and returns
\* with a throughput of 0, in exporter mode and in every one-shot format,
\* quiet or not; and with no duration measured the average is 0
C36_ZeroTimeReportsZero ==
    /\ (total_time = 0 /\ statsPc # "drained") => statsPc # "raised"
    /\ (total_time = 0 /\ statsPc = "returned") => processing_rate = 0
    /\ (processing_times = <<>> /\ statsPc # "drained") => avg_metric_time = 0

\* what of C36 holds: the average is 0 without durations, and a quiet
\* exporter pass of total time 0 returns with a throughput of 0
C36_QuietExporterHolds ==
    /\ (processing_times = <<>> /\ statsPc # "drained") => avg_metric_time = 0
    /\ (total_time = 0 /\ exporter_mode /\ quiet /\ statsPc # "drained") =>
          /\ statsPc # "raised"
          /\ statsPc = "returned" => processing_rate = 0

-----------------------------------------------------------------------------
(* Properties of the series a pass publishes, checked under SpecPublish. *)

\* C40: when update_prometheus_metrics returns, dpm_metric holds one series
\* for each name of filtered_dpm, as many as metrics_above_threshold counts
C40_OneSeriesPerIdentifier ==
    [][UpdateLastUpdate =>
          Cardinality(DOMAIN published'.rates) = Len(filtered_dpm)]_vars

\* what of C40 holds: every series published is the safe name of a name of
\* filtered_dpm, and none is missing
C40_SeriesAreSafeNames ==
    [][UpdateLastUpdate =>
          DOMAIN published'.rates = { SafeMetricName(m) : m \in Keys(filtered_dpm) }]_vars

-----------------------------------------------------------------------------
(* Properties of main's handling of its configuration, checked under       *)
(* SpecConfig.                                                             *)

\* a bind port out of range, a timeout that is not positive, or a missing
\* endpoint, user name or key
ConfigurationError ==
    \/ port < 1 \/ port > 65535
    \/ timeout < 1
    \/ prometheus_endpoint = "None"
    \/ username = "None"
    \/ api_key = "None"

\* main's request for the names has gone out to the backend
MainRequestSent ==
    /\ mainPc \in {"fetch_aggs", "dispatch"}
    /\ prometheus_endpoint # "None"

\* C15: with a configuration error main sends no request and does not come
\* to the collection, and once stopped it has exited with a status other
\* than 0
C15_ConfigErrorFailsFast ==
    (ConfigurationError /\ variant = "dpm-finder") =>
        /\ ~MainRequestSent
        /\ mainPc # "dispatch"
        /\ mainPc = "stopped" => exitCode # 0

====
